---- MODULE Spec2Model ----
(***************************************************************************)
(* Auranova: the galaxy phase controller of GalaxyStars (uiStore phase,    *)
(* reveal progress, skip latch, return-visitor flag) and the position      *)
(* cache of the orbital layout (localStorage entries keyed by time range   *)
(* and artist-id fingerprint).                                             *)
(*                                                                         *)
(* Time is counted in tenths of a second.  The reveal progress, a number   *)
(* in 0..1 in the source, is counted in units of 1/ProgressOne so that     *)
(* elapsed/duration is exact for both reveal durations.                    *)
(***************************************************************************)
EXTENDS Integers, Sequences, FiniteSets, TLC

VARIABLES
    \* ---- stores read by GalaxyStars ----
    isAuthenticated,      \* authStore.isAuthenticated
    isLoadingMusic,       \* musicStore.isLoading
    artistsLength,        \* (musicStore.galaxyData?.artists ?? []).length
    prefersReducedMotion, \* useReducedMotion() state
    galaxyPhase,          \* uiStore.galaxyPhase
    revealProgress,       \* uiStore.revealProgress, in 1/ProgressOne
    skipReveal,           \* uiStore.skipReveal
    \* ---- refs of the GalaxyStars instance ----
    revealStartTimeRef,   \* NullTime or the clock value of the first reveal frame
    isReturnVisitor,      \* read from localStorage on mount
    revealDurationRef,    \* duration of the current reveal
    \* ---- durable storage and clock ----
    hasSeenReveal,        \* localStorage['auranova-has-seen-reveal'] = 'true'
    elapsedTime,          \* state.clock.elapsedTime at the last frame
    \* ---- React scheduling of the GalaxyStars instance ----
    view,                 \* the store values the last render closed over
    pc,                   \* "mount", "idle", "phase" (phase effect due), "skip" (skip effect due)
    skipDue,              \* the skip effect runs in the commit in progress
    \* ---- history ----
    lastEvent,            \* the skip entry point called last ("trigger", "handle"; "...2" when repeated), else "other"
    strayLatch,           \* skipReveal was latched by a trigger delivered outside revealing
    flagAtMount,          \* the persisted flag as it stood when the component mounted
    afterLogout,          \* "pending" from a logout to the next episode, "episode" during that episode, "skipped" once a skip signal is sent during it, else "no"
    frameWrite,           \* what the last frame wrote to the uniforms and the geometry, NoWrite after any other event
    \* ---- star data and buffers of the GalaxyStars instance ----
    artistDataRef,        \* artistDataRef.current: NullData or the data set prepared last
    currentStarData,      \* the useMemo value: NullData, SkeletonData or a data set
    geometry,             \* the BufferGeometry in use: the data its attributes hold, userData.lastPhase
    currentPositionsRef,  \* the positions used for hover and click
    \* ---- OnboardingOverlay ----
    overlayPhase,         \* the galaxyPhase the overlay rendered with last
    showSkipHint,         \* its state showSkipHint; the key and touch listeners are attached while it is true
    skipHintTimer,        \* skipHintTimerRef: when the timer was set last, and whether it is pending
    inputAt,              \* history: the clock at the input handled in the current episode, or NullTime
    \* ---- position cache ----
    storage,              \* localStorage: the item found under each cache key
    putAt,                \* history: the setCachedPositions call that last wrote each key
    cacheResult,          \* the last getCachedPositions call: request, item found, value returned
    \* ---- orbital layout ----
    artists,              \* the SpotifyArtist list given to createSimulationNodes
    nodes,                \* the SimulationNode objects made from it, mutated by runSimulation
    config,               \* the config of the last runSimulation call on these nodes
    otherConfigBefore,    \* history: an earlier call on these nodes had another config
    positionMap,          \* the Map last returned by nodesToPositions
    \* ---- evolution tracking ----
    newData,              \* the GalaxyData given to detectEvolution
    previousData,         \* the GalaxyData of the period before, or Null
    evolved,              \* what detectEvolution returned for them
    \* ---- transformToGalaxyData ----
    lastCall,             \* history: the last transformToGalaxyData call, its arguments and outcome
    linkCall,             \* history: the last createSimulationLinks call made on its own, its argument and result
    \* ---- musicStore, written by DataLoader ----
    galaxyData,           \* musicStore.galaxyData, Null before the first data set
    previousGalaxyData    \* musicStore.previousGalaxyData

phaseVars == <<isAuthenticated, isLoadingMusic, artistsLength, prefersReducedMotion,
               galaxyPhase, revealProgress, skipReveal, revealStartTimeRef,
               isReturnVisitor, revealDurationRef, hasSeenReveal, elapsedTime,
               view, pc, skipDue, lastEvent, strayLatch, flagAtMount,
               afterLogout, frameWrite>>

bufferVars == <<artistDataRef, currentStarData, geometry, currentPositionsRef>>

overlayVars == <<overlayPhase, showSkipHint, skipHintTimer, inputAt>>

cacheVars == <<storage, putAt, cacheResult>>

layoutVars == <<artists, nodes, config, otherConfigBefore, positionMap>>

evolutionVars == <<newData, previousData, evolved>>

transformVars == <<lastCall>>

loaderVars == <<galaxyData, previousGalaxyData>>

linkVars == <<linkCall>>

vars == <<phaseVars, bufferVars, overlayVars, cacheVars, layoutVars, evolutionVars, transformVars, loaderVars, linkVars>>

\* what the actions of one part of the program leave alone
nonPhaseVars == <<overlayVars, cacheVars, layoutVars, evolutionVars, transformVars, loaderVars, linkVars>>
nonCacheVars == <<phaseVars, bufferVars, overlayVars, layoutVars, evolutionVars, transformVars, loaderVars, linkVars>>
nonLayoutVars == <<phaseVars, bufferVars, overlayVars, cacheVars, evolutionVars, transformVars, loaderVars, linkVars>>
nonEvolutionVars == <<phaseVars, bufferVars, overlayVars, cacheVars, layoutVars, transformVars, loaderVars, linkVars>>
nonComponentVars == <<cacheVars, layoutVars, evolutionVars, transformVars, loaderVars, linkVars>>
nonTransformVars == <<phaseVars, bufferVars, overlayVars, layoutVars, evolutionVars, linkVars>>
nonLinkVars == <<phaseVars, bufferVars, overlayVars, cacheVars, layoutVars, evolutionVars, transformVars, loaderVars>>

(***************************************************************************)
(* Bounds                                                                  *)
(***************************************************************************)
MaxTime == 33
FramePeriod == 3
MaxArtists == 2
SkeletonStarCount == 2
NumLayouts == 2

(***************************************************************************)
(* Program constants                                                       *)
(***************************************************************************)
REVEAL_DURATION == 25
QUICK_REVEAL_DURATION == 4
SKIP_HINT_DELAY == 20
ProgressOne == REVEAL_DURATION * QUICK_REVEAL_DURATION
NullTime == 0 - 1

GalaxyPhase == {"skeleton", "loading", "revealing", "active"}

phaseValue(p) ==
    CASE p = "skeleton" -> 0
      [] p = "loading" -> 1
      [] p = "revealing" -> 2
      [] p = "active" -> 3

Min(a, b) == IF a < b THEN a ELSE b
Max(a, b) == IF a > b THEN a ELSE b

NoWrite == [kind |-> "none"]

\* ---- star data and the reveal interpolation ----
\* Attribute values are whole numbers; an interpolated value is kept in
\* units of 1 / ProgressOne^3, so that the cubic easing is exact.
EaseOne == ProgressOne * ProgressOne * ProgressOne

\* easeOutCubic(t) = 1 - Math.pow(1 - t, 3), t in units of 1 / ProgressOne
easeOutCubic(t) ==
    EaseOne - (ProgressOne - t) * (ProgressOne - t) * (ProgressOne - t)

\* generateSkeletonData(): SkeletonStarCount placeholder stars
SkeletonStars ==
    [i \in 1..SkeletonStarCount |->
        [position |-> <<10 + i, 0 - i, 4 * i>>, color |-> <<40, 50, 60 + i>>, size |-> 4 + i]]

\* prepareArtistData(artists) for the data set of n artists
ArtistStars(n) ==
    [i \in 1..n |->
        [position |-> <<0 - 3 * i, 2 * n, 7 + i>>, color |-> <<90, 10 * i, 20>>, size |-> 9 + n - i]]

NoAttributes == <<>>

\* the attribute arrays after the reveal loop over the slots 0..maxCount - 1
revealAttributes(progress, skeleton, artist) ==
    LET artistCount == Len(artist)
        skeletonCount == Len(skeleton)
        maxCount == Max(artistCount, skeletonCount)
        easedProgress == easeOutCubic(progress)
        fadeOut == EaseOne - easedProgress
    IN  [i \in 1..maxCount |->
            IF i <= artistCount /\ i <= skeletonCount
              THEN [position |-> [j \in 1..3 |->
                        skeleton[i].position[j] * EaseOne
                          + (artist[i].position[j] - skeleton[i].position[j]) * easedProgress],
                    color |-> [j \in 1..3 |->
                        skeleton[i].color[j] * EaseOne
                          + (artist[i].color[j] - skeleton[i].color[j]) * easedProgress],
                    size |-> skeleton[i].size * EaseOne
                               + (artist[i].size - skeleton[i].size) * easedProgress]
            ELSE IF i <= artistCount
              THEN [position |-> [j \in 1..3 |-> artist[i].position[j] * easedProgress],
                    color |-> [j \in 1..3 |-> artist[i].color[j] * EaseOne],
                    size |-> artist[i].size * easedProgress]
              ELSE [position |-> [j \in 1..3 |-> skeleton[i].position[j] * EaseOne],
                    color |-> [j \in 1..3 |-> skeleton[i].color[j] * EaseOne],
                    size |-> skeleton[i].size * fadeOut]]

\* What a StarData object or a buffer holds: nothing yet (null, or the zeros
\* of a new array), the skeleton of generateSkeletonData(), the values
\* interpolated by a revealing frame, or the data set of n artists
\* (prepareArtistData(artists)), written n.
NullData == 0
SkeletonData == 0 - 1
InterpolatedData == 0 - 2

\* the useMemo of currentStarData, for the phase of the render
starDataFor(phase) ==
    IF phase = "active" /\ artistDataRef # NullData THEN artistDataRef ELSE SkeletonData

(***************************************************************************)
(* React: what a render of GalaxyStars reads from the stores               *)
(***************************************************************************)
Snapshot ==
    [auth |-> isAuthenticated, loading |-> isLoadingMusic, n |-> artistsLength,
     phase |-> galaxyPhase, progress |-> revealProgress,
     rm |-> prefersReducedMotion, skip |-> skipReveal]

phaseEffectDeps(v) == <<v.auth, v.loading, v.n, v.phase, v.progress, v.rm>>
skipEffectDeps(v) == <<v.skip, v.phase>>

Settled == pc = "idle" /\ view = Snapshot

PhaseInit ==
    /\ isAuthenticated = FALSE
    /\ isLoadingMusic = FALSE
    /\ artistsLength = 0
    /\ prefersReducedMotion = FALSE
    /\ galaxyPhase = "skeleton"
    /\ revealProgress = 0
    /\ skipReveal = FALSE
    /\ revealStartTimeRef = NullTime
    /\ isReturnVisitor = FALSE
    /\ revealDurationRef = REVEAL_DURATION
    /\ hasSeenReveal \in BOOLEAN
    /\ elapsedTime = 0
    /\ view = Snapshot
    /\ pc = "mount"
    /\ skipDue = FALSE
    /\ lastEvent = "other"
    /\ strayLatch = FALSE
    /\ flagAtMount = hasSeenReveal
    /\ afterLogout = "no"
    /\ frameWrite = NoWrite
    /\ artistDataRef = NullData
    /\ currentStarData = NullData
    /\ geometry = [data |-> NullData, lastPhase |-> "none"]
    /\ currentPositionsRef = NullData

\* First commit: the mount effects run in declaration order; the return-visitor
\* check comes first, the phase effect and the skip effect follow.
Mount ==
    /\ pc = "mount"
    /\ UNCHANGED nonPhaseVars
    /\ UNCHANGED bufferVars
    /\ isReturnVisitor' = hasSeenReveal
    /\ pc' = "phase"
    /\ skipDue' = TRUE
    /\ flagAtMount' = hasSeenReveal
    /\ UNCHANGED <<isAuthenticated, isLoadingMusic, artistsLength, prefersReducedMotion,
                   galaxyPhase, revealProgress, skipReveal, revealStartTimeRef,
                   revealDurationRef, hasSeenReveal, elapsedTime, view,
                   lastEvent, strayLatch, afterLogout, frameWrite>>

\* A store value selected by the component changed: it renders again, and the
\* effects whose dependencies changed are due.
Render ==
    /\ pc = "idle"
    /\ UNCHANGED nonPhaseVars
    /\ view # Snapshot
    /\ view' = Snapshot
    /\ pc' = IF phaseEffectDeps(Snapshot) # phaseEffectDeps(view) THEN "phase" ELSE "skip"
    /\ skipDue' = (skipEffectDeps(Snapshot) # skipEffectDeps(view))
    /\ UNCHANGED <<isAuthenticated, isLoadingMusic, artistsLength, prefersReducedMotion,
                   galaxyPhase, revealProgress, skipReveal, revealStartTimeRef,
                   isReturnVisitor, revealDurationRef, hasSeenReveal, elapsedTime,
                   lastEvent, strayLatch, flagAtMount, afterLogout, frameWrite>>
    \* the memos of this render: currentStarData has the dependency [phase],
    \* the geometry [currentStarData, phase, maxStarCount], and maxStarCount
    \* is SKELETON_STAR_COUNT for every data set of the model
    /\ currentStarData' =
          IF Snapshot.phase # view.phase THEN starDataFor(Snapshot.phase)
          ELSE currentStarData
    /\ geometry' =
          IF Snapshot.phase # view.phase
            THEN [data |-> currentStarData', lastPhase |-> "none"]
            ELSE geometry
    \* the two effects of the commit that touch nothing the phase and skip
    \* effects read: "Update current positions ref" [currentStarData,
    \* maxStarCount] and "Update artist data when it changes" [artists, phase]
    /\ currentPositionsRef' =
          IF currentStarData' # currentStarData THEN currentStarData'
          ELSE currentPositionsRef
    /\ artistDataRef' =
          IF /\ Snapshot.n # view.n \/ Snapshot.phase # view.phase
             /\ Snapshot.n > 0 /\ Snapshot.phase = "active"
            THEN Snapshot.n
            ELSE artistDataRef

\* "Set reveal duration based on visitor type": the ref read on mount decides.
chooseRevealDuration_ReadsStorage ==
    IF hasSeenReveal THEN QUICK_REVEAL_DURATION ELSE REVEAL_DURATION

chooseRevealDuration ==
    IF isReturnVisitor THEN QUICK_REVEAL_DURATION ELSE REVEAL_DURATION

\* if (!isAuthenticated): back to the skeleton, progress and reveal clock reset
logoutBranch_KeepsProgress ==
    /\ galaxyPhase' = "skeleton"
    /\ revealStartTimeRef' = NullTime
    /\ UNCHANGED <<revealProgress, revealDurationRef, hasSeenReveal>>

logoutBranch ==
    /\ galaxyPhase' = "skeleton"
    /\ revealProgress' = 0
    /\ revealStartTimeRef' = NullTime
    /\ UNCHANGED <<revealDurationRef, hasSeenReveal>>

\* else if (isLoadingMusic)
loadingBranch ==
    /\ galaxyPhase' = "loading"
    /\ UNCHANGED <<revealProgress, revealStartTimeRef, revealDurationRef, hasSeenReveal>>

\* data ready while the phase is loading or skeleton: reduced motion goes
\* straight to active, otherwise a reveal episode begins
beginReveal_IgnoresReducedMotion ==
    /\ revealDurationRef' = chooseRevealDuration
    /\ galaxyPhase' = "revealing"
    /\ revealStartTimeRef' = NullTime
    /\ UNCHANGED <<revealProgress, hasSeenReveal>>

beginReveal ==
    IF view.rm
      THEN /\ galaxyPhase' = "active"
           /\ revealProgress' = ProgressOne
           /\ UNCHANGED <<revealStartTimeRef, revealDurationRef, hasSeenReveal>>
      ELSE /\ revealDurationRef' = chooseRevealDuration
           /\ galaxyPhase' = "revealing"
           /\ revealStartTimeRef' = NullTime
           /\ UNCHANGED <<revealProgress, hasSeenReveal>>

\* phase === 'revealing' && revealProgress >= 1: the episode is complete
markReturnVisitor_Dropped(canWrite) == UNCHANGED hasSeenReveal

\* try { localStorage.setItem(RETURN_VISITOR_KEY, 'true') } catch {}: the
\* item is written unless setItem throws
markReturnVisitor(canWrite) == hasSeenReveal' = (hasSeenReveal \/ canWrite)

completeReveal(canWrite) ==
    /\ galaxyPhase' = "active"
    /\ markReturnVisitor(canWrite)
    /\ UNCHANGED <<revealProgress, revealStartTimeRef, revealDurationRef>>

\* "Update phase based on auth and data state"
\* canWrite tells whether localStorage accepts a write during the effect
PhaseEffect(canWrite) ==
    /\ pc = "phase"
    /\ UNCHANGED nonPhaseVars
    /\ pc' = IF skipDue THEN "skip" ELSE "idle"
    /\ IF ~view.auth THEN logoutBranch
       ELSE IF view.loading THEN loadingBranch
       ELSE IF view.n > 0 /\ view.phase \in {"loading", "skeleton"} THEN beginReveal
       ELSE IF view.n > 0 /\ view.phase = "revealing" /\ view.progress >= ProgressOne
         THEN completeReveal(canWrite)
       ELSE UNCHANGED <<galaxyPhase, revealProgress, revealStartTimeRef,
                        revealDurationRef, hasSeenReveal>>
    /\ UNCHANGED <<isAuthenticated, isLoadingMusic, artistsLength, prefersReducedMotion,
                   skipReveal, isReturnVisitor, elapsedTime, view, skipDue,
                   lastEvent, strayLatch, flagAtMount, frameWrite>>
    /\ afterLogout' =
          IF galaxyPhase' = "revealing" /\ galaxyPhase # "revealing"
            THEN IF afterLogout = "pending" THEN "episode" ELSE "no"
          ELSE IF galaxyPhase' = galaxyPhase THEN afterLogout
          ELSE IF afterLogout = "pending" /\ galaxyPhase' \in {"skeleton", "loading"}
            THEN "pending"
          ELSE "no"
    \* artistDataRef.current = prepareArtistData(artists), in both branches
    \* taken when the data is ready
    /\ artistDataRef' =
          IF view.auth /\ ~view.loading /\ view.n > 0
               /\ view.phase \in {"loading", "skeleton"}
            THEN view.n
            ELSE artistDataRef
    /\ UNCHANGED <<currentStarData, geometry, currentPositionsRef>>

\* "Handle skip reveal trigger (from keyboard/touch input)"
\* setRevealProgress(1); setPhase('active')
forceComplete_PhaseOnly ==
    /\ galaxyPhase' = "active"
    /\ UNCHANGED revealProgress

forceComplete ==
    /\ revealProgress' = ProgressOne
    /\ galaxyPhase' = "active"

SkipEffect(canWrite) ==
    /\ pc = "skip"
    /\ UNCHANGED nonPhaseVars
    /\ UNCHANGED bufferVars
    /\ pc' = "idle"
    /\ skipDue' = FALSE
    /\ IF skipDue /\ view.skip /\ view.phase = "revealing"
         THEN /\ forceComplete
              /\ markReturnVisitor(canWrite)
         ELSE UNCHANGED <<revealProgress, galaxyPhase, hasSeenReveal>>
    /\ UNCHANGED <<isAuthenticated, isLoadingMusic, artistsLength, prefersReducedMotion,
                   skipReveal, revealStartTimeRef, isReturnVisitor, revealDurationRef,
                   elapsedTime, view, lastEvent, strayLatch, flagAtMount, frameWrite>>
    /\ afterLogout' = IF galaxyPhase' # galaxyPhase THEN "no" ELSE afterLogout

\* useFrame: the reveal clock.  The callback is the one of the last render.
\* The frame that comes d after the clock showed the value before.
FrameAfter(before, d) ==
    /\ Settled
    /\ UNCHANGED nonPhaseVars
    /\ elapsedTime' = before + d
    /\ IF view.phase = "revealing"
         THEN /\ revealStartTimeRef' =
                    IF revealStartTimeRef = NullTime THEN elapsedTime' ELSE revealStartTimeRef
              /\ revealProgress' =
                    Min(((elapsedTime' - revealStartTimeRef') * ProgressOne) \div revealDurationRef,
                        ProgressOne)
         ELSE UNCHANGED <<revealStartTimeRef, revealProgress>>
    /\ lastEvent' = "other"
    /\ UNCHANGED <<isAuthenticated, isLoadingMusic, artistsLength, prefersReducedMotion,
                   galaxyPhase, skipReveal, isReturnVisitor, revealDurationRef,
                   hasSeenReveal, view, pc, skipDue, strayLatch, flagAtMount, afterLogout>>
    /\ frameWrite' =
          IF view.phase = "revealing"
            THEN [kind |-> "reveal", uPhase |-> phaseValue(view.phase),
                  uRevealProgress |-> revealProgress', interpolatedAt |-> view.progress,
                  attributes |-> IF geometry.data # NullData /\ artistDataRef # NullData
                                   THEN revealAttributes(view.progress, SkeletonStars,
                                                         ArtistStars(artistDataRef))
                                   ELSE NoAttributes]
            ELSE [kind |-> "uniforms", uPhase |-> phaseValue(view.phase)]
    \* the geometry attributes and the positions for hover and click
    /\ IF view.phase = "revealing" /\ geometry.data # NullData
            /\ artistDataRef # NullData
         THEN /\ geometry' = [geometry EXCEPT !.data = InterpolatedData]
              /\ currentPositionsRef' = InterpolatedData
         ELSE IF view.phase = "active" /\ geometry.data # NullData
                   /\ artistDataRef # NullData /\ geometry.lastPhase # "active"
           THEN /\ geometry' = [data |-> artistDataRef, lastPhase |-> "active"]
                /\ currentPositionsRef' = artistDataRef
           ELSE UNCHANGED <<geometry, currentPositionsRef>>
    /\ UNCHANGED <<artistDataRef, currentStarData>>

Frame(d) ==
    /\ elapsedTime + d <= MaxTime
    /\ FrameAfter(elapsedTime, d)

\* The same frame with the origin of the clock moved: the callback reads the
\* clock only as the difference to the start time of a running reveal, so
\* outside a running reveal the value before counts from zero.  The clock
\* then stays small however long frames keep being rendered.
FrameShifted_ClockStopped(d) == FrameAfter(elapsedTime, 0)

FrameShifted(d) ==
    FrameAfter(IF view.phase = "revealing" /\ revealStartTimeRef # NullTime
                 THEN elapsedTime ELSE 0, d)

\* authStore: checkAuth / handleAuthCallback succeed
Login ==
    /\ Settled
    /\ UNCHANGED nonPhaseVars
    /\ UNCHANGED bufferVars
    /\ ~isAuthenticated
    /\ isAuthenticated' = TRUE
    /\ lastEvent' = "other"
    /\ UNCHANGED <<isLoadingMusic, artistsLength, prefersReducedMotion,
                   galaxyPhase, revealProgress, skipReveal, revealStartTimeRef,
                   isReturnVisitor, revealDurationRef, hasSeenReveal, elapsedTime,
                   view, pc, skipDue, strayLatch, flagAtMount, afterLogout>>
    /\ frameWrite' = NoWrite

\* authStore.logout
Logout ==
    /\ Settled
    /\ UNCHANGED nonPhaseVars
    /\ UNCHANGED bufferVars
    /\ isAuthenticated
    /\ isAuthenticated' = FALSE
    /\ lastEvent' = "other"
    /\ UNCHANGED <<isLoadingMusic, artistsLength, prefersReducedMotion,
                   galaxyPhase, revealProgress, skipReveal, revealStartTimeRef,
                   isReturnVisitor, revealDurationRef, hasSeenReveal, elapsedTime,
                   view, pc, skipDue, strayLatch, flagAtMount>>
    /\ afterLogout' = "pending"
    /\ frameWrite' = NoWrite

\* musicStore.setLoading, called by DataLoader with the combined isLoading of
\* its queries; the queries fetch only while the user is authenticated.
setLoading(loading) ==
    /\ Settled
    /\ UNCHANGED nonPhaseVars
    /\ UNCHANGED bufferVars
    /\ loading # isLoadingMusic
    /\ loading => isAuthenticated
    /\ isLoadingMusic' = loading
    /\ lastEvent' = "other"
    /\ UNCHANGED <<isAuthenticated, artistsLength, prefersReducedMotion,
                   galaxyPhase, revealProgress, skipReveal, revealStartTimeRef,
                   isReturnVisitor, revealDurationRef, hasSeenReveal, elapsedTime,
                   view, pc, skipDue, strayLatch, flagAtMount, afterLogout>>
    /\ frameWrite' = NoWrite

\* musicStore.setGalaxyData, called by DataLoader only with a non-empty list
setGalaxyData(n) ==
    /\ Settled
    /\ UNCHANGED nonPhaseVars
    /\ UNCHANGED bufferVars
    /\ isAuthenticated
    /\ n > 0
    /\ n # artistsLength
    /\ artistsLength' = n
    /\ lastEvent' = "other"
    /\ UNCHANGED <<isAuthenticated, isLoadingMusic, prefersReducedMotion,
                   galaxyPhase, revealProgress, skipReveal, revealStartTimeRef,
                   isReturnVisitor, revealDurationRef, hasSeenReveal, elapsedTime,
                   view, pc, skipDue, strayLatch, flagAtMount, afterLogout>>
    /\ frameWrite' = NoWrite

\* useReducedMotion: the media query value on mount and its change events
setPrefersReducedMotion(b) ==
    /\ Settled
    /\ UNCHANGED nonPhaseVars
    /\ UNCHANGED bufferVars
    /\ b # prefersReducedMotion
    /\ prefersReducedMotion' = b
    /\ lastEvent' = "other"
    /\ UNCHANGED <<isAuthenticated, isLoadingMusic, artistsLength,
                   galaxyPhase, revealProgress, skipReveal, revealStartTimeRef,
                   isReturnVisitor, revealDurationRef, hasSeenReveal, elapsedTime,
                   view, pc, skipDue, strayLatch, flagAtMount, afterLogout>>
    /\ frameWrite' = NoWrite

\* history: which skip entry point was used last, once or repeatedly
afterSkip(entry) ==
    IF lastEvent \in {entry, entry \o "2"} THEN entry \o "2" ELSE entry

\* uiStore.triggerSkipReveal: set({ skipReveal: true }), whatever the phase
triggerSkipReveal_Toggles ==
    /\ skipReveal' = ~skipReveal
    /\ strayLatch' = IF skipReveal THEN strayLatch ELSE (galaxyPhase # "revealing")
    /\ UNCHANGED <<isAuthenticated, isLoadingMusic, artistsLength, prefersReducedMotion,
                   galaxyPhase, revealProgress, revealStartTimeRef,
                   isReturnVisitor, revealDurationRef, hasSeenReveal, elapsedTime,
                   view, pc, skipDue, flagAtMount>>
    /\ afterLogout' = IF galaxyPhase = "revealing" /\ afterLogout = "episode"
                       THEN "skipped" ELSE afterLogout

triggerSkipReveal ==
    /\ skipReveal' = TRUE
    /\ strayLatch' = IF skipReveal THEN strayLatch ELSE (galaxyPhase # "revealing")
    /\ UNCHANGED <<isAuthenticated, isLoadingMusic, artistsLength, prefersReducedMotion,
                   galaxyPhase, revealProgress, revealStartTimeRef,
                   isReturnVisitor, revealDurationRef, hasSeenReveal, elapsedTime,
                   view, pc, skipDue, flagAtMount>>
    /\ afterLogout' = IF galaxyPhase = "revealing" /\ afterLogout = "episode"
                       THEN "skipped" ELSE afterLogout

\* The store action called directly: it is exported by useUIStore and takes
\* no account of the phase.
SkipTrigger ==
    /\ Settled
    /\ UNCHANGED nonPhaseVars
    /\ UNCHANGED bufferVars
    /\ triggerSkipReveal
    /\ lastEvent' = afterSkip("trigger")
    /\ frameWrite' = NoWrite

\* OnboardingOverlay.handleSkip: the handler of the key/touch listeners, which
\* triggers the skip only while the phase is revealing.  The listeners are
\* attached once the skip hint shows; the handler is modelled for any call.
handleSkip ==
    /\ Settled
    /\ UNCHANGED nonPhaseVars
    /\ UNCHANGED bufferVars
    /\ lastEvent' = afterSkip("handle")
    /\ frameWrite' = NoWrite
    /\ IF galaxyPhase = "revealing"
         THEN triggerSkipReveal
         ELSE UNCHANGED <<isAuthenticated, isLoadingMusic, artistsLength,
                          prefersReducedMotion, galaxyPhase, revealProgress, skipReveal,
                          revealStartTimeRef, isReturnVisitor, revealDurationRef,
                          hasSeenReveal, elapsedTime, view, pc, skipDue,
                          strayLatch, flagAtMount, afterLogout>>

PhaseNext ==
    \/ Mount
    \/ Render
    \/ \E canWrite \in BOOLEAN : PhaseEffect(canWrite)
    \/ \E canWrite \in BOOLEAN : SkipEffect(canWrite)
    \/ \E d \in {FramePeriod, 2 * FramePeriod} : Frame(d)
    \/ Login
    \/ Logout
    \/ \E b \in BOOLEAN : setLoading(b)
    \/ \E n \in 1..MaxArtists : setGalaxyData(n)
    \/ \E b \in BOOLEAN : setPrefersReducedMotion(b)
    \/ SkipTrigger
    \/ handleSkip

(***************************************************************************)
(* Position cache (simulation/positionCache)                               *)
(*                                                                         *)
(* Strings are sequences of UTF-16 code units.  A Map is the sequence of   *)
(* its [key, value] entries in insertion order.  An item of localStorage   *)
(* is the JSON text found under a key, held in parsed form with the        *)
(* numbers still as text; "text" is an item JSON.parse throws on.          *)
(***************************************************************************)
CACHE_KEY_PREFIX == "auranova:positions:"
CACHE_VERSION == 1
SliceLength == 100
Limb == 65536

TimeRange == {"short_term", "medium_term"}

\* An artist id is held as the number k of the artist; its text, which
\* getCacheKey sorts, joins and hashes, is a Spotify id of 22 base-62
\* characters.  The ids differ in their last character.
IdStem == <<52, 90, 54, 120, 66, 107, 115, 82, 100, 97, 66,
            51, 81, 116, 72, 110, 77, 112, 103, 55, 76>>

IdText(k) == IdStem \o <<48 + k>>

\* The artist-id lists requested: one list, the same artists in another
\* order, a list of the same size with one other member, and a shorter list.
RequestLists ==
    {<<1, 2, 3, 4, 5>>, <<5, 3, 1, 2, 4>>, <<1, 2, 3, 4, 6>>, <<1, 2, 3, 4>>}

\* nodesToPositions: one [x, y, z] per artist, in the order of the artists
Layout(ids, l) == [i \in 1..Len(ids) |-> <<ids[i], <<l * i, 0 - i, 0>>>>]

Range(f) == {f[i] : i \in DOMAIN f}

NoItem == [kind |-> "none"]
Null == [isNull |-> TRUE]

\* ---- String.prototype comparison, Array.prototype.sort/join, slice ----
RECURSIVE StrLess(_, _)
StrLess(a, b) ==
    IF b = <<>> THEN FALSE
    ELSE IF a = <<>> THEN TRUE
    ELSE IF Head(a) # Head(b) THEN Head(a) < Head(b)
    ELSE StrLess(Tail(a), Tail(b))

RECURSIVE Insert(_, _)
Insert(x, sorted) ==
    IF sorted = <<>> THEN <<x>>
    ELSE IF StrLess(IdText(x), IdText(Head(sorted))) THEN <<x>> \o sorted
    ELSE <<Head(sorted)>> \o Insert(x, Tail(sorted))

RECURSIVE sort(_)
sort(ids) == IF ids = <<>> THEN <<>> ELSE Insert(Head(ids), sort(Tail(ids)))

RECURSIVE join(_)
join(ids) ==
    IF ids = <<>> THEN <<>>
    ELSE IF Len(ids) = 1 THEN IdText(Head(ids))
    ELSE IdText(Head(ids)) \o <<44>> \o join(Tail(ids))

slice(str, n) == SubSeq(str, 1, Min(Len(str), n))

\* ---- hashCode: hash = ((hash << 5) - hash + char) as a 32-bit integer, ----
\* ---- kept as two 16-bit limbs <<high, low>>; Math.abs at the end       ----
\* The limbs are always in 0..Limb-1: the test has them evaluated at each
\* iteration of the loop, not after the last one.
RECURSIVE hashLoop(_, _, _)
hashLoop(str, high, low) ==
    IF str # <<>> /\ high \in 0..(Limb - 1) /\ low \in 0..(Limb - 1)
      THEN LET l == low * 31 + Head(str)
               h == high * 31 + (l \div Limb)
           IN  hashLoop(Tail(str), h % Limb, l % Limb)
      ELSE <<high, low>>

hashCode(str) ==
    LET hash == hashLoop(str, 0, 0)
    IN  IF hash[1] < Limb \div 2 THEN hash
        ELSE IF hash[2] = 0 THEN <<Limb - hash[1], 0>>
        ELSE <<Limb - 1 - hash[1], Limb - hash[2]>>

\* prefix, time range, number of ids, hash of the truncated sorted join
getCacheKey_Unsorted(timeRange, artistIds) ==
    LET sortedIds == artistIds
        idsHash == slice(join(sortedIds), SliceLength)
    IN  <<CACHE_KEY_PREFIX, timeRange, Len(sortedIds), hashCode(idsHash)>>

getCacheKey(timeRange, artistIds) ==
    LET sortedIds == sort(artistIds)
        idsHash == slice(join(sortedIds), SliceLength)
    IN  <<CACHE_KEY_PREFIX, timeRange, Len(sortedIds), hashCode(idsHash)>>

\* getCacheKey, tabulated for the requests made
CacheKey == [t \in TimeRange, ids \in RequestLists |-> getCacheKey(t, ids)]

CacheKeys == {CacheKey[t, ids] : t \in TimeRange, ids \in RequestLists}

\* ---- JSON.stringify / JSON.parse of the numbers of a position ----
RECURSIVE Digits(_)
Digits(n) == IF n < 10 THEN <<48 + n>> ELSE Digits(n \div 10) \o <<48 + (n % 10)>>

NumberToJSON(x) == IF x < 0 THEN <<45>> \o Digits(0 - x) ELSE Digits(x)

RECURSIVE DigitsValue(_, _)
DigitsValue(text, acc) ==
    IF text = <<>> THEN acc ELSE DigitsValue(Tail(text), acc * 10 + (Head(text) - 48))

JSONToNumber(text) ==
    IF Head(text) = 45 THEN 0 - DigitsValue(Tail(text), 0) ELSE DigitsValue(text, 0)

\* Array.from(positions.entries()) written as JSON, and read back
StringifyPositions(entries) ==
    [i \in 1..Len(entries) |->
        <<entries[i][1], [j \in 1..3 |-> NumberToJSON(entries[i][2][j])]>>]

ParsePositions(texts) ==
    [i \in 1..Len(texts) |->
        <<texts[i][1], [j \in 1..3 |-> JSONToNumber(texts[i][2][j])]>>]

\* new Map(entries): a key met again keeps its place and takes the new value
MapSet(map, entry) ==
    IF \E i \in 1..Len(map) : map[i][1] = entry[1]
      THEN [i \in 1..Len(map) |-> IF map[i][1] = entry[1] THEN entry ELSE map[i]]
      ELSE Append(map, entry)

RECURSIVE NewMap(_)
NewMap(entries) ==
    IF entries = <<>> THEN <<>>
    ELSE MapSet(NewMap(SubSeq(entries, 1, Len(entries) - 1)), entries[Len(entries)])

\* ---- validity of a cached entry for the ids requested ----
isCacheValid_SizeOnly(cached, currentArtistIds) ==
    IF cached.version # CACHE_VERSION THEN FALSE
    ELSE LET cachedSet == Range(cached.artistIds)
             currentSet == Range(currentArtistIds)
         IN  Cardinality(cachedSet) = Cardinality(currentSet)

isCacheValid(cached, currentArtistIds) ==
    IF cached.version # CACHE_VERSION THEN FALSE
    ELSE LET cachedSet == Range(cached.artistIds)
             currentSet == Range(currentArtistIds)
         IN  IF Cardinality(cachedSet) # Cardinality(currentSet) THEN FALSE
             ELSE \A id \in currentSet : id \in cachedSet

NoPut == [kind |-> "none"]
NoResult == [op |-> "none"]

CacheInit ==
    /\ storage = [k \in CacheKeys |-> NoItem]
    /\ putAt = [k \in CacheKeys |-> NoPut]
    /\ cacheResult = NoResult

\* history: the maps put, under whichever key, for this time range and this
\* set of ids and not overwritten or removed since
PutFor(timeRange, artistIds) ==
    {putAt[k].positions :
        k \in {c \in CacheKeys : /\ putAt[c].kind = "put"
                                 /\ putAt[c].timeRange = timeRange
                                 /\ Range(putAt[c].artistIds) = Range(artistIds)}}

\* localStorage.removeItem(key)
removeItem_Keeps(store, key) == store

removeItem(store, key) == [store EXCEPT ![key] = NoItem]

\* available = FALSE: localStorage throws (disabled, or the quota is exceeded)
getCachedPositions(timeRange, artistIds, available) ==
    LET key == CacheKey[timeRange, artistIds]
        stored == storage[key]
        cached == [version |-> stored.version,
                   artistIds |-> stored.artistIds,
                   positions |-> NewMap(ParsePositions(stored.positions))]
        stale == available /\ stored.kind = "entry" /\ ~isCacheValid(cached, artistIds)
        hit == available /\ stored.kind = "entry" /\ isCacheValid(cached, artistIds)
    IN  /\ UNCHANGED nonCacheVars
        /\ storage' = IF stale THEN removeItem(storage, key) ELSE storage
        /\ putAt' = IF stale THEN [putAt EXCEPT ![key] = NoPut] ELSE putAt
        /\ cacheResult' =
              IF available
                THEN [op |-> "get", available |-> TRUE,
                      timeRange |-> timeRange, artistIds |-> artistIds,
                      found |-> stored, expected |-> PutFor(timeRange, artistIds),
                      ret |-> IF hit THEN [isNull |-> FALSE, map |-> cached.positions]
                              ELSE Null]
                ELSE [op |-> "get", available |-> FALSE, ret |-> Null]

setCachedPositions(timeRange, artistIds, positions, available) ==
    LET key == CacheKey[timeRange, artistIds]
        entry == [kind |-> "entry",
                  version |-> CACHE_VERSION,
                  artistIds |-> artistIds,
                  positions |-> StringifyPositions(positions)]
    IN  /\ UNCHANGED nonCacheVars
        /\ storage' = IF available THEN [storage EXCEPT ![key] = entry] ELSE storage
        /\ putAt' = IF available
                      THEN [putAt EXCEPT ![key] =
                               [kind |-> "put", timeRange |-> timeRange,
                                artistIds |-> artistIds, positions |-> positions]]
                      ELSE putAt
        /\ cacheResult' = NoResult

\* every key of localStorage that starts with the prefix is removed
clearPositionCache ==
    /\ UNCHANGED nonCacheVars
    /\ storage' = [k \in CacheKeys |-> NoItem]
    /\ putAt' = [k \in CacheKeys |-> NoPut]
    /\ cacheResult' = NoResult

\* What getCachedPositions may find under a key that it did not write itself:
\* text that is not JSON, or an entry left by another format version.
ForeignItems ==
    {[kind |-> "text"]} \cup
    {[kind |-> "entry", version |-> CACHE_VERSION + 1, artistIds |-> ids,
      positions |-> StringifyPositions(Layout(ids, 1))] :
        ids \in {l \in RequestLists : l = sort(l)}}

ForeignItem(key, item) ==
    /\ UNCHANGED nonCacheVars
    /\ item.kind = "entry" => \E t \in TimeRange : CacheKey[t, item.artistIds] = key
    /\ storage[key] # item
    /\ storage' = [storage EXCEPT ![key] = item]
    /\ putAt' = [putAt EXCEPT ![key] = NoPut]
    /\ cacheResult' = NoResult

CacheNext ==
    \/ \E t \in TimeRange, ids \in RequestLists, ok \in BOOLEAN :
          getCachedPositions(t, ids, ok)
    \/ \E t \in TimeRange, ids \in RequestLists, l \in 1..NumLayouts, ok \in BOOLEAN :
          setCachedPositions(t, ids, Layout(ids, l), ok)
    \/ clearPositionCache
    \/ \E k \in CacheKeys, item \in ForeignItems : ForeignItem(k, item)

(***************************************************************************)
(* Orbital layout (simulation/forceSimulation)                             *)
(*                                                                         *)
(* A length is a whole number of hundredths of a unit, a sine or cosine a  *)
(* whole number of thousandths; a quotient is rounded to the nearest whole *)
(* number.  A field that a node does not have yet holds undefined.  The    *)
(* array sortedNodes holds references to the objects of nodes: it is the   *)
(* sequence of their indices in nodes.                                     *)
(***************************************************************************)
Unit == 100
TrigUnit == 1000
undefined == 0 - 1000000

DEFAULT_CONFIG ==
    [radius |-> 35, innerRadius |-> 8, outerRadius |-> 35,
     numOrbits |-> 5, verticalSpread |-> 6, use3D |-> TRUE]

\* The configs given to runSimulation: the one transformToGalaxyData builds,
\* a flat layout, and one whose two radii are equal and small.
Configs ==
    {[radius |-> 35, iterations |-> 300, use3D |-> TRUE],
     [use3D |-> FALSE],
     [innerRadius |-> 1, outerRadius |-> 1]}

\* { ...DEFAULT_CONFIG, ...config }
Merge(defaults, partial) ==
    [k \in DOMAIN defaults |-> IF k \in DOMAIN partial THEN partial[k] ELSE defaults[k]]


\* value ?? fallback
Coalesce(value, fallback) == IF value = undefined THEN fallback ELSE value

Round(a, b) ==
    IF a >= 0 THEN (2 * a + b) \div (2 * b) ELSE 0 - ((b - 2 * a) \div (2 * b))

\* Math.sqrt, rounded down: the root lies in low..high
RECURSIVE sqrtBetween(_, _, _)
sqrtBetween(n, low, high) ==
    IF low >= high THEN low
    ELSE LET mid == (low + high + 1) \div 2
         IN  IF mid * mid <= n THEN sqrtBetween(n, mid, high)
             ELSE sqrtBetween(n, low, mid - 1)

sqrt(n) == sqrtBetween(n, 0, 16384)

\* Math.cos and Math.sin of rank * goldenAngle + tenths * PI / 10, for the
\* ranks 0..5 and the genre offsets 0 and 2 tenths of PI
CosTable ==
    [tenths \in {0, 2} |->
        IF tenths = 0 THEN <<1000, 0 - 737, 87, 608, 0 - 985, 844>>
                      ELSE <<809, 0 - 994, 656, 26, 0 - 694, 998>>]

SinTable ==
    [tenths \in {0, 2} |->
        IF tenths = 0 THEN <<0, 675, 0 - 996, 794, 0 - 174, 0 - 537>>
                      ELSE <<588, 113, 0 - 755, 1000, 0 - 720, 62>>]

MapHas(map, key) == \E i \in 1..Len(map) : map[i][1] = key

MapGet(map, key) == map[CHOOSE i \in 1..Len(map) : map[i][1] = key][2]

\* ---- buildGenreMap ----
\* genreCounts after the genres of one node are counted
RECURSIVE countGenres(_, _)
countGenres(genres, genreCounts) ==
    IF genres = <<>> THEN genreCounts
    ELSE LET genre == Head(genres)
             count == IF MapHas(genreCounts, genre) THEN MapGet(genreCounts, genre) ELSE 0
         IN  countGenres(Tail(genres), MapSet(genreCounts, <<genre, count + 1>>))

RECURSIVE countNodes(_, _)
countNodes(ns, genreCounts) ==
    IF ns = <<>> THEN genreCounts
    ELSE countNodes(Tail(ns), countGenres(Head(ns).genres, genreCounts))

\* Array.prototype.sort((a, b) => b[1] - a[1]): stable, larger counts first
RECURSIVE insertByCount(_, _)
insertByCount(entry, sorted) ==
    IF sorted = <<>> THEN <<entry>>
    ELSE IF Head(sorted)[2] > entry[2]
           THEN <<Head(sorted)>> \o insertByCount(entry, Tail(sorted))
           ELSE <<entry>> \o sorted

RECURSIVE sortByCount(_)
sortByCount(entries) ==
    IF entries = <<>> THEN <<>>
    ELSE insertByCount(Head(entries), sortByCount(Tail(entries)))

\* the Map genre -> index, as its [genre, index] entries
buildGenreMap(ns) ==
    LET sortedGenres == sortByCount(countNodes(ns, <<>>))
    IN  [i \in 1..Len(sortedGenres) |-> <<sortedGenres[i][1], i - 1>>]

\* ---- assignClusters ----
\* the lowest index the genres of a node have in genreMap; Infinity is -1
RECURSIVE bestCluster(_, _, _)
bestCluster(genres, genreMap, best) ==
    IF genres = <<>> THEN best
    ELSE LET known == MapHas(genreMap, Head(genres))
             clusterIndex == MapGet(genreMap, Head(genres))
         IN  IF known /\ (best = 0 - 1 \/ clusterIndex < best)
               THEN bestCluster(Tail(genres), genreMap, clusterIndex)
               ELSE bestCluster(Tail(genres), genreMap, best)

assignClusters_FirstGenre(ns, genreMap) ==
    [i \in 1..Len(ns) |->
        IF Len(ns[i].genres) = 0 THEN [ns[i] EXCEPT !.cluster = 0]
        ELSE [ns[i] EXCEPT !.cluster = MapGet(genreMap, ns[i].genres[1])]]

assignClusters(ns, genreMap) ==
    [i \in 1..Len(ns) |->
        IF Len(ns[i].genres) = 0 THEN [ns[i] EXCEPT !.cluster = 0]
        ELSE LET best == bestCluster(ns[i].genres, genreMap, 0 - 1)
             IN  [ns[i] EXCEPT !.cluster = IF best = 0 - 1 THEN 0 ELSE best]]

\* ---- [...nodes].sort((a, b) => b.popularity - a.popularity) ----
RECURSIVE insertByPopularity_TiesLast(_, _, _)
insertByPopularity_TiesLast(ns, index, sorted) ==
    IF sorted = <<>> THEN <<index>>
    ELSE IF ns[Head(sorted)].popularity >= ns[index].popularity
           THEN <<Head(sorted)>> \o insertByPopularity_TiesLast(ns, index, Tail(sorted))
           ELSE <<index>> \o sorted

RECURSIVE insertByPopularity(_, _, _)
insertByPopularity(ns, index, sorted) ==
    IF sorted = <<>> THEN <<index>>
    ELSE IF ns[Head(sorted)].popularity > ns[index].popularity
           THEN <<Head(sorted)>> \o insertByPopularity(ns, index, Tail(sorted))
           ELSE <<index>> \o sorted

\* the indices first..Len(ns), sorted: an index is put in front of the
\* sorted indices that follow it in ns
RECURSIVE sortByPopularity(_, _)
sortByPopularity(ns, first) ==
    IF first > Len(ns) THEN <<>>
    ELSE insertByPopularity(ns, first, sortByPopularity(ns, first + 1))

\* ---- calculateOrbitalPosition ----
orbitRadius(rank, totalArtists, cfg) ==
    cfg.innerRadius * Unit
      + Round(rank * (cfg.outerRadius - cfg.innerRadius) * Unit,
              Max(totalArtists - 1, 1))

calculateOrbitalPosition(node, rank, totalArtists, cfg, genreMap) ==
    LET totalGenres == IF Len(genreMap) = 0 THEN 1 ELSE Len(genreMap)
        maxRank == Max(totalArtists - 1, 1)
        \* theta = acos(1 - 2 * t), t = rank / maxRank
        cosTheta == Round((maxRank - 2 * rank) * TrigUnit, maxRank)
        sinTheta == sqrt(TrigUnit * TrigUnit - cosTheta * cosTheta)
        genreIndex == node.cluster
        \* genreAngleOffset = (genreIndex / totalGenres) * PI * 0.4
        tenths == (4 * genreIndex) \div totalGenres
        r == orbitRadius(rank, totalArtists, cfg)
        ring == Round(r * sinTheta, TrigUnit)
    IN  [x |-> Round(ring * CosTable[tenths][rank + 1], TrigUnit),
         y |-> IF cfg.use3D THEN Round(r * cosTheta * 6, TrigUnit * 10) ELSE 0,
         z |-> Round(ring * SinTable[tenths][rank + 1], TrigUnit)]

getNodeSize(node) == 60

\* ---- resolveOverlaps ----
minSpacingTenths == 12

\* the body of the two inner loops for nodes[i] and nodes[j] of the source,
\* here the objects a and b: the nodes after it, and whether they overlapped
pushApart(ns, a, b) ==
    LET nodeA == ns[a]
        nodeB == ns[b]
        dx == Coalesce(nodeB.x, 0) - Coalesce(nodeA.x, 0)
        dy == Coalesce(nodeB.y, 0) - Coalesce(nodeA.y, 0)
        dz == Coalesce(nodeB.z, 0) - Coalesce(nodeA.z, 0)
        squared == dx * dx + dy * dy + dz * dz
        dist == sqrt(squared)
        minDist == ((getNodeSize(nodeA) + getNodeSize(nodeB)) * minSpacingTenths) \div 10
        \* dist < minDist && dist > 0.001
        overlapping == squared < minDist * minDist /\ squared > 0
        overlap == minDist - dist
        \* nx * pushAmount = (dx / dist) * (overlap / 2)
        px == Round(dx * overlap, 2 * dist)
        py == Round(dy * overlap, 2 * dist)
        pz == Round(dz * overlap, 2 * dist)
    IN  IF overlapping
          THEN <<[ns EXCEPT ![a] = [nodeA EXCEPT !.x = Coalesce(nodeA.x, 0) - px,
                                                 !.y = Coalesce(nodeA.y, 0) - py,
                                                 !.z = Coalesce(nodeA.z, 0) - pz],
                            ![b] = [nodeB EXCEPT !.x = Coalesce(nodeB.x, 0) + px,
                                                 !.y = Coalesce(nodeB.y, 0) + py,
                                                 !.z = Coalesce(nodeB.z, 0) + pz]],
                 TRUE>>
          ELSE <<ns, FALSE>>

\* one pass of the loops over i < j, from the pair (i, j) on
RECURSIVE resolvePass(_, _, _, _, _)
resolvePass(ns, sortedNodes, i, j, hasOverlap) ==
    IF i > Len(sortedNodes) THEN <<ns, hasOverlap>>
    ELSE IF j > Len(sortedNodes) THEN resolvePass(ns, sortedNodes, i + 1, i + 2, hasOverlap)
    ELSE LET pushed == pushApart(ns, sortedNodes[i], sortedNodes[j])
         IN  IF pushed[2] THEN resolvePass(pushed[1], sortedNodes, i, j + 1, TRUE)
             ELSE resolvePass(ns, sortedNodes, i, j + 1, hasOverlap)

RECURSIVE resolveOverlaps(_, _, _)
resolveOverlaps(ns, sortedNodes, iterations) ==
    IF iterations = 0 THEN ns
    ELSE LET pass == resolvePass(ns, sortedNodes, 1, 2, FALSE)
         IN  IF pass[2] THEN resolveOverlaps(pass[1], sortedNodes, iterations - 1)
             ELSE pass[1]

\* ---- runSimulation ----
CollisionPasses == 15

\* node.x = pos.x; node.y = pos.y; node.z = pos.z
place_OnlyOnce(node, pos) ==
    [node EXCEPT !.x = Coalesce(node.x, pos.x),
                 !.y = Coalesce(node.y, pos.y),
                 !.z = Coalesce(node.z, pos.z)]

place(node, pos) == [node EXCEPT !.x = pos.x, !.y = pos.y, !.z = pos.z]

\* the place an index has in sortedNodes, counted from 0
IndexIn(sortedNodes, index) ==
    (CHOOSE k \in 1..Len(sortedNodes) : sortedNodes[k] = index) - 1

runSimulation(ns, partial) ==
    LET cfg == Merge(DEFAULT_CONFIG, partial)
        genreMap == buildGenreMap(ns)
        clustered == assignClusters(ns, genreMap)
        sortedNodes == sortByPopularity(clustered, 1)
        ranked == [i \in 1..Len(ns) |->
                      [clustered[i] EXCEPT !.rank = IndexIn(sortedNodes, i)]]
        totalArtists == Len(ns)
        placed == [i \in 1..Len(ns) |->
                      place(ranked[i],
                            calculateOrbitalPosition(ranked[i], Coalesce(ranked[i].rank, 0),
                                                     totalArtists, cfg, genreMap))]
    IN  resolveOverlaps(placed, sortedNodes, CollisionPasses)

\* ---- nodesToPositions: the Map id -> [x, y, z] ----
nodesToPositions_KeyedByCluster(ns) ==
    NewMap([i \in 1..Len(ns) |->
               <<ns[i].cluster, <<Coalesce(ns[i].x, 0), Coalesce(ns[i].y, 0), Coalesce(ns[i].z, 0)>>>>])

nodesToPositions(ns) ==
    NewMap([i \in 1..Len(ns) |->
               <<ns[i].id, <<Coalesce(ns[i].x, 0), Coalesce(ns[i].y, 0), Coalesce(ns[i].z, 0)>>>>])

\* ---- createSimulationNodes (simulation/dataTransform) ----
createSimulationNodes(list) ==
    [i \in 1..Len(list) |->
        [id |-> list[i].id, genres |-> list[i].genres, popularity |-> list[i].popularity,
         cluster |-> 0, rank |-> undefined,
         x |-> undefined, y |-> undefined, z |-> undefined]]

\* ---- the artists laid out ----
MaxNodes == 3

\* the tolerance of the distance test, in hundredths of a unit
Epsilon == 4

\* genres and popularity of the artists met in the lists
Profiles ==
    {[genres |-> <<"rock">>, popularity |-> 90],
     [genres |-> <<"pop", "rock">>, popularity |-> 50],
     [genres |-> <<"pop">>, popularity |-> 50],
     [genres |-> <<>>, popularity |-> 10]}

\* the lists of at most MaxNodes artists; the ids are distinct
ArtistLists ==
    UNION {{[i \in 1..n |-> [id |-> i, genres |-> f[i].genres, popularity |-> f[i].popularity]] :
               f \in [1..n -> Profiles]} : n \in 0..MaxNodes}

NoConfig == [none |-> TRUE]
NoPositions == [isNull |-> TRUE]

LayoutInit ==
    /\ artists = <<>>
    /\ nodes = <<>>
    /\ config = NoConfig
    /\ otherConfigBefore = FALSE
    /\ positionMap = NoPositions

\* const nodes = createSimulationNodes(spotifyArtists)
CreateNodes ==
    /\ UNCHANGED nonLayoutVars
    /\ nodes' = createSimulationNodes(artists)
    /\ config' = NoConfig
    /\ otherConfigBefore' = FALSE
    /\ UNCHANGED <<artists, positionMap>>

\* runSimulation(nodes, links, cfg) on the nodes as they are
Simulate(cfg) ==
    /\ UNCHANGED nonLayoutVars
    /\ nodes' = runSimulation(nodes, cfg)
    /\ config' = cfg
    /\ otherConfigBefore' = (otherConfigBefore \/ config \notin {NoConfig, cfg})
    /\ UNCHANGED <<artists, positionMap>>

\* positionMap = nodesToPositions(simulatedNodes)
ReadPositions ==
    /\ UNCHANGED nonLayoutVars
    /\ positionMap' = [isNull |-> FALSE, map |-> nodesToPositions(nodes)]
    /\ UNCHANGED <<artists, nodes, config, otherConfigBefore>>

LayoutNext ==
    \/ CreateNodes
    \/ \E cfg \in Configs : Simulate(cfg)
    \/ ReadPositions

(***************************************************************************)
(* Evolution tracking (detectEvolution)                                    *)
(*                                                                         *)
(* A GalaxyData is the record of its artists; an artist is the record of   *)
(* its fields, of which the id is the one detectEvolution reads.           *)
(***************************************************************************)
MaxTop == 7
MaxLinkArtists == 2

\* the status for a rankChange = oldIndex - newIndex
rankStatus_Beyond(rankChange) ==
    IF rankChange > 5 THEN "rising"
    ELSE IF rankChange < 0 - 5 THEN "falling"
    ELSE "stable"

rankStatus(rankChange) ==
    IF rankChange >= 5 THEN "rising"
    ELSE IF rankChange <= 0 - 5 THEN "falling"
    ELSE "stable"

\* newData.artists.map((artist, newIndex) => ...), newIndex counted from 0
withEvolution(artist, newIndex, previousArtistMap) ==
    LET known == MapHas(previousArtistMap, artist.id)
        oldIndex == MapGet(previousArtistMap, artist.id).index
        rankChange == IF known THEN oldIndex - newIndex ELSE 0
        evolutionStatus == IF known THEN rankStatus(rankChange) ELSE "new"
    IN  \* { ...artist, evolutionStatus, rankChange }
        [evolutionStatus |-> evolutionStatus, rankChange |-> rankChange] @@ artist

detectEvolution(new, previous) ==
    IF previous = Null THEN new
    ELSE LET previousArtistMap ==
                 NewMap([i \in 1..Len(previous.artists) |->
                            <<previous.artists[i].id,
                              [index |-> i - 1, artist |-> previous.artists[i]]>>])
             artistsWithEvolution ==
                 [i \in 1..Len(new.artists) |->
                     withEvolution(new.artists[i], i - 1, previousArtistMap)]
         IN  \* { ...newData, artists: artistsWithEvolution }
             [new EXCEPT !.artists = artistsWithEvolution]

\* The top lists compared: the first k artists of a ranking of MaxTop
\* artists, for the ranking 1, 2, ..., the same reversed, the same moved
\* round by five places, and the same with its first two and last two
\* artists exchanged.
Rankings ==
    {[i \in 1..MaxTop |-> i],
     [i \in 1..MaxTop |-> MaxTop + 1 - i],
     [i \in 1..MaxTop |-> ((i + 4) % MaxTop) + 1],
     [i \in 1..MaxTop |-> IF i <= 2 THEN MaxTop - 2 + i
                          ELSE IF i > MaxTop - 2 THEN i - (MaxTop - 2)
                          ELSE i]}

TopLists == {SubSeq(ranking, 1, k) : ranking \in Rankings, k \in 0..MaxTop}

GalaxyDataOf(ids) == [artists |-> [i \in 1..Len(ids) |-> [id |-> ids[i]]]]

NotDetected == [called |-> FALSE]

EvolutionInit ==
    /\ newData = GalaxyDataOf(<<>>)
    /\ previousData = Null
    /\ evolved = NotDetected

DetectEvolution ==
    /\ UNCHANGED nonEvolutionVars
    /\ evolved' = [called |-> TRUE, result |-> detectEvolution(newData, previousData)]
    /\ UNCHANGED <<newData, previousData>>

EvolutionNext == DetectEvolution

(***************************************************************************)
(* transformToGalaxyData (simulation/dataTransform)                        *)
(*                                                                         *)
(* A call of a function that may throw gives an outcome: threw, or the     *)
(* value returned; for the cache functions also the storage they leave.    *)
(***************************************************************************)

\* the top artists of the user, by the number of their id
SpotifyArtist(k) ==
    [id |-> k,
     genres |-> IF k \in {1, 5} THEN <<"rock">>
                ELSE IF k = 2 THEN <<"pop", "rock">>
                ELSE IF k \in {3, 6} THEN <<"pop">>
                ELSE <<>>,
     popularity |-> IF k = 1 THEN 90
                    ELSE IF k \in {2, 3} THEN 50
                    ELSE IF k = 4 THEN 10
                    ELSE 70]

\* the artist lists transformed: those of the requests with five artists
TransformLists == {ids \in RequestLists : Len(ids) = 5}

SpotifyArtists(ids) == [i \in 1..Len(ids) |-> SpotifyArtist(ids[i])]

\* localStorage.getItem(key); it throws when the storage cannot be read
getItem(store, key, canRead) ==
    IF canRead THEN [threw |-> FALSE, value |-> store[key]] ELSE [threw |-> TRUE]

\* JSON.parse(stored), the numbers read back from their text
parse(stored) ==
    IF stored.kind = "text" THEN [threw |-> TRUE]
    ELSE [threw |-> FALSE,
          value |-> [version |-> stored.version,
                     artistIds |-> stored.artistIds,
                     positions |-> ParsePositions(stored.positions)]]

\* the try block of getCachedPositions
tryGetCachedPositions(store, timeRange, artistIds, canRead) ==
    LET key == CacheKey[timeRange, artistIds]
        stored == getItem(store, key, canRead)
        serialized == parse(stored.value)
        cached == [serialized.value EXCEPT !.positions = NewMap(@)]
    IN  IF stored.threw THEN [threw |-> TRUE, storage |-> store]
        ELSE IF stored.value.kind = "none"
          THEN [threw |-> FALSE, value |-> Null, storage |-> store]
        ELSE IF serialized.threw THEN [threw |-> TRUE, storage |-> store]
        ELSE IF ~isCacheValid(cached, artistIds)
          THEN [threw |-> FALSE, value |-> Null,
                storage |-> removeItem(store, key)]
        ELSE [threw |-> FALSE,
              value |-> [isNull |-> FALSE, map |-> cached.positions],
              storage |-> store]

\* catch { return null }
catchNull_Rethrows(outcome) == outcome

catchNull(outcome) ==
    IF outcome.threw
      THEN [threw |-> FALSE, value |-> Null, storage |-> outcome.storage]
      ELSE outcome

getCachedPositionsIn(store, timeRange, artistIds, canRead) ==
    catchNull(tryGetCachedPositions(store, timeRange, artistIds, canRead))

\* the try block of setCachedPositions; setItem throws when the storage
\* cannot be written
trySetCachedPositions(store, timeRange, artistIds, map, canWrite) ==
    LET key == CacheKey[timeRange, artistIds]
        entry == [kind |-> "entry",
                  version |-> CACHE_VERSION,
                  artistIds |-> artistIds,
                  positions |-> StringifyPositions(map)]
    IN  IF canWrite
          THEN [threw |-> FALSE, value |-> Null, storage |-> [store EXCEPT ![key] = entry]]
          ELSE [threw |-> TRUE, storage |-> store]

\* setCachedPositions
setCachedPositionsIn_Skipped(store, timeRange, artistIds, map, canWrite) ==
    [threw |-> FALSE, value |-> Null, storage |-> store]

setCachedPositionsIn(store, timeRange, artistIds, map, canWrite) ==
    catchNull(trySetCachedPositions(store, timeRange, artistIds, map, canWrite))

\* nodesToPositions(runSimulation(nodes, links, { radius, iterations,
\* use3D: true })) on the nodes just created, tabulated for the lists
\* transformed
TransformConfig == [radius |-> 35, iterations |-> 300, use3D |-> TRUE]

SimulatedTable ==
    {<<ids, nodesToPositions(runSimulation(createSimulationNodes(SpotifyArtists(ids)),
                                           TransformConfig))>> :
        ids \in TransformLists}

SimulatedPositions(ids) == (CHOOSE e \in SimulatedTable : e[1] = ids)[2]

\* createSimulationLinks: the pairs i < j in the order of the two loops; a
\* strength is the quotient sharedGenres.length / totalGenres, kept as its
\* two terms
sharedGenres(artist1, artist2) ==
    SelectSeq(artist1.genres, LAMBDA g : g \in Range(artist2.genres))

totalGenres(artist1, artist2) ==
    Cardinality(Range(artist1.genres) \cup Range(artist2.genres))

\* strength > 0.15
meaningful_AtLeast(shared, total) == shared * 100 >= 15 * total

meaningful(shared, total) == shared * 100 > 15 * total

RECURSIVE linksFrom(_, _, _)
linksFrom(list, i, j) ==
    IF i > Len(list) THEN <<>>
    ELSE IF j > Len(list) THEN linksFrom(list, i + 1, i + 2)
    ELSE LET shared == Len(sharedGenres(list[i], list[j]))
             total == totalGenres(list[i], list[j])
         IN  (IF shared > 0 /\ meaningful(shared, total)
                THEN <<[source |-> list[i].id, target |-> list[j].id,
                        strength |-> <<shared, total>>]>>
                ELSE <<>>)
               \o linksFrom(list, i, j + 1)

createSimulationLinks(list) ==
    LET found == linksFrom(list, 1, 2)
    IN  [links |-> found, connections |-> found]

\* Artists for createSimulationLinks on its own: genres are numbered; the
\* lists share 3 genres of 20 (0.15), 3 of 11, 3 of 12, 1 of 9, 1 of 17,
\* 1 of 18, all, or none
GenreLists ==
    {<<>>, <<1, 2, 3>>,
     <<1, 2, 3, 4, 5, 6, 7, 8, 9, 10, 11>>,
     <<1, 2, 3, 12, 13, 14, 15, 16, 17, 18, 19, 20>>,
     <<27, 1, 22, 23, 24, 25, 26>>}

LinkLists ==
    UNION {[1..n -> GenreLists] : n \in 2..MaxLinkArtists}

LinkArtists(genreLists) ==
    [i \in 1..Len(genreLists) |-> [id |-> i, genres |-> genreLists[i], popularity |-> 50]]

NoLinkCall == [called |-> FALSE]

LinkInit == linkCall = NoLinkCall


\* transformArtists: positionMap.get(artist.id) ?? [0, 0, 0]
transformArtists(spotifyArtists, map) ==
    [i \in 1..Len(spotifyArtists) |->
        [id |-> spotifyArtists[i].id,
         position |-> IF MapHas(map, spotifyArtists[i].id)
                        THEN MapGet(map, spotifyArtists[i].id)
                        ELSE <<0, 0, 0>>]]

NoCall == [called |-> FALSE]

TransformInit == lastCall = NoCall

\* the storage a cache function leaves, in the history of the puts
PutAfter(store, timeRange, artistIds, map) ==
    [k \in CacheKeys |->
        IF store[k] = storage[k] THEN putAt[k]
        ELSE IF store[k].kind = "entry"
          THEN [kind |-> "put", timeRange |-> timeRange,
                artistIds |-> artistIds, positions |-> map]
          ELSE NoPut]

\* transformToGalaxyData(spotifyArtists, { timeRange, useCache }) with the
\* artists of the ids given; canRead and canWrite tell whether localStorage
\* can be read and written during the call
transformToGalaxyData(timeRange, ids, useCache, canRead, canWrite) ==
    LET spotifyArtists == SpotifyArtists(ids)
        artistIds == [i \in 1..Len(spotifyArtists) |-> spotifyArtists[i].id]
        found == IF useCache /\ canRead
                   THEN storage[CacheKey[timeRange, artistIds]].kind ELSE "unread"
        lookup == IF useCache
                    THEN getCachedPositionsIn(storage, timeRange, artistIds, canRead)
                    ELSE [threw |-> FALSE, value |-> Null, storage |-> storage]
        hit == ~lookup.threw /\ lookup.value # Null
        ran == ~lookup.threw /\ lookup.value = Null
        simulated == SimulatedPositions(ids)
        saved == IF ran /\ useCache
                   THEN setCachedPositionsIn(lookup.storage, timeRange, artistIds,
                                             simulated, canWrite)
                   ELSE [threw |-> FALSE, value |-> Null, storage |-> lookup.storage]
        threw == lookup.threw \/ saved.threw
        map == IF hit THEN lookup.value.map ELSE simulated
        \* history: the call before was one for the same time range and the
        \* same set of ids with the cache in use and working, and it ran the
        \* layout ("miss") or not ("hit")
        repeatOf == IF /\ lastCall.called
                       /\ lastCall.useCache /\ lastCall.canRead /\ lastCall.canWrite
                       /\ lastCall.timeRange = timeRange
                       /\ Range(lastCall.artistIds) = Range(artistIds)
                      THEN IF lastCall.ran THEN "miss" ELSE "hit"
                      ELSE "none"
    IN  /\ UNCHANGED nonTransformVars
        /\ storage' = saved.storage
        /\ putAt' = PutAfter(saved.storage, timeRange, artistIds, simulated)
        /\ cacheResult' = NoResult
        /\ lastCall' =
              [called |-> TRUE, timeRange |-> timeRange, artistIds |-> artistIds,
               useCache |-> useCache, canRead |-> canRead, canWrite |-> canWrite,
               found |-> found, hit |-> hit, ran |-> ran, threw |-> threw,
               repeatOf |-> repeatOf,
               artists |-> IF threw THEN <<>> ELSE transformArtists(spotifyArtists, map),
               connections |-> IF threw THEN <<>>
                               ELSE createSimulationLinks(spotifyArtists).connections]

\* Something else than the position cache writes text that is not JSON
\* under a key; the calls made before it are not the last ones any more.
CorruptItem(key) ==
    /\ UNCHANGED nonTransformVars
    /\ storage[key].kind # "text"
    /\ \E t \in TimeRange, ids \in TransformLists : CacheKey[t, ids] = key
    /\ storage' = [storage EXCEPT ![key] = [kind |-> "text"]]
    /\ putAt' = [putAt EXCEPT ![key] = NoPut]
    /\ cacheResult' = NoResult
    /\ lastCall' = NoCall
    /\ UNCHANGED loaderVars

TransformNext ==
    \/ \E t \in TimeRange, ids \in TransformLists :
          \/ transformToGalaxyData(t, ids, FALSE, TRUE, TRUE) /\ UNCHANGED loaderVars
          \/ \E canRead \in BOOLEAN, canWrite \in BOOLEAN :
                /\ canWrite => canRead
                /\ transformToGalaxyData(t, ids, TRUE, canRead, canWrite)
                /\ UNCHANGED loaderVars
    \/ \E k \in CacheKeys : CorruptItem(k)

\* createSimulationLinks(artists) for a list the layout is not run on
LinkCall(genreLists) ==
    /\ UNCHANGED nonLinkVars
    /\ linkCall' = [called |-> TRUE, artists |-> LinkArtists(genreLists),
                    connections |-> createSimulationLinks(LinkArtists(genreLists)).connections]

\* pipeline runs with the cache in use, and createSimulationLinks on its own
LinksNext ==
    \/ \E ids \in TransformLists, working \in BOOLEAN :
          transformToGalaxyData("short_term", ids, TRUE, working, working)
            /\ UNCHANGED loaderVars
    \/ \E genreLists \in LinkLists : LinkCall(genreLists)

(***************************************************************************)
(* DataLoader and musicStore                                               *)
(***************************************************************************)
LoaderInit ==
    /\ galaxyData = Null
    /\ previousGalaxyData = Null

\* musicStore.setGalaxyData(data)
setGalaxyDataIn(data) ==
    /\ previousGalaxyData' = galaxyData
    /\ galaxyData' = data

\* DataLoader, "Transform and store data when all data is loaded": the
\* effect for the artists fetched for the time range of the store; working
\* tells whether localStorage can be read and written during it.  An
\* exception leaves the effect before setGalaxyData.
DataLoaderEffect(timeRange, ids, working) ==
    /\ Len(ids) > 0
    /\ transformToGalaxyData(timeRange, ids, TRUE, working, working)
    /\ IF lastCall'.threw THEN UNCHANGED loaderVars
       ELSE setGalaxyDataIn([artists |-> lastCall'.artists,
                             connections |-> lastCall'.connections])

LoaderNext ==
    \E t \in TimeRange, ids \in TransformLists, working \in BOOLEAN :
        DataLoaderEffect(t, ids, working)

(***************************************************************************)
(* OnboardingOverlay: the skip hint and the key and touch listeners         *)
(*                                                                         *)
(* The overlay selects galaxyPhase from the store; it renders again in the *)
(* commit that follows a change of the phase, before any frame, timer or   *)
(* input.  Its effects touch nothing GalaxyStars reads, so its commit is   *)
(* one step.                                                               *)
(***************************************************************************)
NoTimer == [setAt |-> NullTime, pending |-> FALSE]

OverlayInit ==
    /\ overlayPhase = "skeleton"
    /\ showSkipHint = FALSE
    /\ skipHintTimer = NoTimer
    /\ inputAt = NullTime

OverlaySettled == overlayPhase = galaxyPhase

\* the cleanup of the timer effect: clearTimeout(skipHintTimerRef.current)
clearSkipHintTimer == [skipHintTimer EXCEPT !.pending = FALSE]

\* "Show skip hint after 2 seconds of reveal", dependency [galaxyPhase]: the
\* cleanup of the run before, then the effect for the new phase
OverlayCommit ==
    /\ pc = "idle"
    /\ overlayPhase # galaxyPhase
    /\ UNCHANGED <<phaseVars, bufferVars, nonComponentVars>>
    /\ overlayPhase' = galaxyPhase
    /\ IF galaxyPhase = "revealing"
         THEN /\ skipHintTimer' = [setAt |-> elapsedTime, pending |-> TRUE]
              /\ inputAt' = NullTime
              /\ UNCHANGED showSkipHint
         ELSE /\ skipHintTimer' = IF overlayPhase = "revealing"
                                    THEN clearSkipHintTimer ELSE skipHintTimer
              /\ showSkipHint' = FALSE
              /\ UNCHANGED inputAt

\* the timer callback: setShowSkipHint(true); the overlay renders again and
\* the listener effect attaches the listeners
SkipHintTimeout ==
    /\ Settled /\ OverlaySettled
    /\ skipHintTimer.pending
    /\ elapsedTime >= skipHintTimer.setAt + SKIP_HINT_DELAY
    /\ UNCHANGED <<phaseVars, bufferVars, nonComponentVars>>
    /\ skipHintTimer' = [skipHintTimer EXCEPT !.pending = FALSE]
    /\ showSkipHint' = TRUE
    /\ UNCHANGED <<overlayPhase, inputAt>>

\* keydown (no modifier key) or touchstart while the listeners are attached:
\* handleSkip with the phase of the last render of the overlay
KeyOrTouch ==
    /\ Settled /\ OverlaySettled
    /\ showSkipHint
    /\ UNCHANGED <<bufferVars, nonComponentVars>>
    /\ lastEvent' = afterSkip("handle")
    /\ frameWrite' = NoWrite
    /\ IF overlayPhase = "revealing"
         THEN /\ triggerSkipReveal
              /\ showSkipHint' = FALSE
              /\ inputAt' = elapsedTime
         ELSE UNCHANGED <<isAuthenticated, isLoadingMusic, artistsLength,
                          prefersReducedMotion, galaxyPhase, revealProgress, skipReveal,
                          revealStartTimeRef, isReturnVisitor, revealDurationRef,
                          hasSeenReveal, elapsedTime, view, pc, skipDue,
                          strayLatch, flagAtMount, afterLogout, showSkipHint, inputAt>>
    /\ UNCHANGED <<overlayPhase, skipHintTimer>>

\* GalaxyStars and the overlay together; input reaches the store through
\* the listeners of the overlay only
OverlayNext ==
    \/ Mount
    \/ \E canWrite \in BOOLEAN : PhaseEffect(canWrite)
    \/ \E canWrite \in BOOLEAN : SkipEffect(canWrite)
    \/ OverlayCommit
    \/ SkipHintTimeout
    \/ KeyOrTouch
    \/ OverlaySettled /\ Render
    \/ OverlaySettled /\ \E d \in {FramePeriod, 2 * FramePeriod} : Frame(d)
    \/ OverlaySettled /\ Login
    \/ OverlaySettled /\ Logout
    \/ OverlaySettled /\ \E b \in BOOLEAN : setLoading(b)
    \/ OverlaySettled /\ \E n \in 1..MaxArtists : setGalaxyData(n)
    \/ OverlaySettled /\ \E b \in BOOLEAN : setPrefersReducedMotion(b)

\* The same program with frames that never stop
PhaseNextLive ==
    \/ Mount
    \/ Render
    \/ \E canWrite \in BOOLEAN : PhaseEffect(canWrite)
    \/ \E canWrite \in BOOLEAN : SkipEffect(canWrite)
    \/ \E d \in {FramePeriod, 2 * FramePeriod} : FrameShifted(d)
    \/ Login
    \/ Logout
    \/ \E b \in BOOLEAN : setLoading(b)
    \/ \E n \in 1..MaxArtists : setGalaxyData(n)
    \/ \E b \in BOOLEAN : setPrefersReducedMotion(b)
    \/ SkipTrigger
    \/ handleSkip

(***************************************************************************)
(* Specifications                                                          *)
(***************************************************************************)
Init == PhaseInit /\ OverlayInit /\ CacheInit /\ LayoutInit /\ EvolutionInit /\ TransformInit /\ LoaderInit /\ LinkInit
Next == PhaseNext
Spec == Init /\ [][Next]_vars

\* React runs the effects of a commit and renders again after a store
\* change: weak fairness.  Frames keep being rendered whatever else goes on:
\* strong fairness, a frame being possible only between commits.
SpecLive ==
    /\ Init
    /\ [][PhaseNextLive]_vars
    /\ WF_vars(Mount)
    /\ WF_vars(Render)
    /\ WF_vars(\E canWrite \in BOOLEAN : PhaseEffect(canWrite))
    /\ WF_vars(\E canWrite \in BOOLEAN : SkipEffect(canWrite))
    /\ SF_vars(\E d \in {FramePeriod, 2 * FramePeriod} : FrameShifted(d))

\* GalaxyStars with the OnboardingOverlay as the only source of skip signals
SpecOverlay == Init /\ [][OverlayNext]_vars

\* The cache on its own, the component not yet mounted
CacheSpecInit ==
    PhaseInit /\ ~hasSeenReveal /\ OverlayInit /\ CacheInit /\ LayoutInit /\ EvolutionInit /\ TransformInit /\ LoaderInit /\ LinkInit
SpecCache == CacheSpecInit /\ [][CacheNext]_vars

\* The layout on its own: the artists are given, their nodes just created
LayoutSpecInit ==
    /\ PhaseInit /\ ~hasSeenReveal
    /\ OverlayInit
    /\ CacheInit
    /\ artists \in ArtistLists
    /\ nodes = createSimulationNodes(artists)
    /\ config = NoConfig
    /\ otherConfigBefore = FALSE
    /\ positionMap = NoPositions
    /\ EvolutionInit
    /\ TransformInit
    /\ LoaderInit
    /\ LinkInit
SpecLayout == LayoutSpecInit /\ [][LayoutNext]_vars

\* detectEvolution on its own: the two data sets are given
EvolutionSpecInit ==
    /\ PhaseInit /\ ~hasSeenReveal
    /\ OverlayInit
    /\ CacheInit
    /\ LayoutInit
    /\ newData \in {GalaxyDataOf(ids) : ids \in TopLists}
    /\ previousData \in {Null} \cup {GalaxyDataOf(ids) : ids \in TopLists}
    /\ evolved = NotDetected
    /\ TransformInit
    /\ LoaderInit
    /\ LinkInit
SpecEvolution == EvolutionSpecInit /\ [][EvolutionNext]_vars

\* transformToGalaxyData over the position cache
SpecTransform == CacheSpecInit /\ [][TransformNext]_vars

\* DataLoader: the data sets of a session, one after the other
SpecLoader == CacheSpecInit /\ [][LoaderNext]_vars

\* Pipeline runs and createSimulationLinks on genre-rich artists
SpecLinks == CacheSpecInit /\ [][LinksNext]_vars

(***************************************************************************)
(* Properties of the phase controller                                      *)
(***************************************************************************)

\* The commit step in which the phase effect runs with what the render saw.
PhaseEvaluation == pc = "phase" /\ pc' # "phase"

\* C1: the phase only moves forward in the order skeleton, loading,
\* revealing, active; the only move backward is to skeleton, and only while
\* the user is not authenticated.
C1_PhaseMonotonic ==
    [][galaxyPhase' # galaxyPhase =>
          \/ phaseValue(galaxyPhase') > phaseValue(galaxyPhase)
          \/ galaxyPhase' = "skeleton" /\ ~isAuthenticated]_vars

\* C4: while the phase stays revealing the reveal progress never decreases
\* and lies in 0..1, and it is exactly 1 when the phase changes from
\* revealing to active.
C4_RevealMonotonic ==
    [][/\ (galaxyPhase = "revealing" /\ galaxyPhase' = "revealing")
              => revealProgress' >= revealProgress
       /\ galaxyPhase = "revealing" => revealProgress \in 0..ProgressOne
       /\ (galaxyPhase = "revealing" /\ galaxyPhase' = "active")
              => revealProgress' = ProgressOne]_vars

\* C5: with reduced motion preferred, an evaluation that sees an
\* authenticated user, loading finished and a non-empty artist list while the
\* phase is skeleton or loading sets the phase to active and the progress to 1
\* in that one step; the phase is never revealing in between and the reveal
\* clock is not started.
C5_ReducedMotionBypass ==
    [][(/\ PhaseEvaluation
        /\ view.rm /\ view.auth /\ ~view.loading /\ view.n > 0
        /\ view.phase \in {"skeleton", "loading"})
          => /\ galaxyPhase' = "active"
             /\ revealProgress' = ProgressOne
             /\ UNCHANGED <<revealStartTimeRef, revealDurationRef>>]_vars

C5_Witness ==
    /\ pc \in {"skip", "idle"}
    /\ view.rm /\ view.auth /\ ~view.loading /\ view.n > 0
    /\ view.phase = "loading"
    /\ galaxyPhase = "active"
    /\ revealProgress = ProgressOne

\* C6: an evaluation that sees isAuthenticated false sets the phase to
\* skeleton, the reveal progress to 0 and the reveal start time to null,
\* whatever the phase and the data state were, and the commit ends that way.
C6_LogoutResets ==
    [][/\ (PhaseEvaluation /\ ~view.auth)
              => /\ galaxyPhase' = "skeleton"
                 /\ revealProgress' = 0
                 /\ revealStartTimeRef' = NullTime
       /\ (pc = "skip" /\ ~view.auth)
              => UNCHANGED <<galaxyPhase, revealProgress, revealStartTimeRef>>]_vars

C6_Witness ==
    /\ pc = "idle"
    /\ ~view.auth
    /\ view.phase = "revealing"
    /\ view.progress > 0 /\ view.progress < ProgressOne
    /\ galaxyPhase = "skeleton"
    /\ revealProgress = 0
    /\ revealStartTimeRef = NullTime

\* C7: once loading has finished for an authenticated user with an empty
\* artist list and the component has nothing left to run, the phase is
\* active: it is not left in loading or revealing.
C7_EmptyDatasetReachesActive ==
    (Settled /\ isAuthenticated /\ ~isLoadingMusic /\ artistsLength = 0
        /\ galaxyPhase # "skeleton")
      => galaxyPhase = "active"

\* C8: a skip trigger delivered while the phase is skeleton, loading or
\* active changes neither the phase nor the progress, and no later episode
\* is completed by the skip effect because of it.
C8_StraySkipIsNoOp ==
    [][/\ (SkipTrigger /\ galaxyPhase # "revealing")
              => UNCHANGED <<galaxyPhase, revealProgress>>
       /\ (pc = "skip" /\ galaxyPhase = "revealing" /\ galaxyPhase' = "active")
              => ~strayLatch]_vars

\* C9: a skip trigger that follows a skip trigger with no other event in
\* between changes nothing: phase, progress, persisted visitor flag and skip
\* latch are what the first trigger left.
C9_SkipIdempotent ==
    [][(\/ SkipTrigger /\ lastEvent \in {"trigger", "trigger2"}
        \/ handleSkip /\ lastEvent \in {"handle", "handle2"})
          => UNCHANGED <<galaxyPhase, revealProgress, hasSeenReveal, skipReveal>>]_vars

C9_Witness ==
    /\ lastEvent = "trigger2"
    /\ Settled
    /\ galaxyPhase = "active"
    /\ skipReveal
    /\ ~strayLatch
    /\ hasSeenReveal
    /\ revealProgress = ProgressOne

CompletionDue ==
    \/ /\ pc = "phase" /\ view.auth /\ ~view.loading /\ view.n > 0
       /\ view.phase = "revealing" /\ view.progress >= ProgressOne
    \/ /\ pc = "skip" /\ skipDue /\ view.skip /\ view.phase = "revealing"

\* C24: whenever an effect moves the phase from revealing to active, by the
\* progress having reached 1 or by a skip signal, the durable flag holds
\* 'true' afterwards if the storage accepted the write; and when the write
\* fails the effect that finds a reveal to complete still leaves the phase
\* active.
C24_FlagPersistedOnCompletion ==
    [][ \A canWrite \in BOOLEAN :
          (PhaseEffect(canWrite) \/ SkipEffect(canWrite)) =>
             /\ (galaxyPhase = "revealing" /\ galaxyPhase' = "active" /\ canWrite)
                   => hasSeenReveal'
             /\ (CompletionDue /\ ~canWrite) => galaxyPhase' = "active" ]_vars

\* the last frame brought the progress to 1, the phase effect has made the
\* phase active, and the write of the flag failed
C24_Witness ==
    /\ Settled
    /\ galaxyPhase = "active"
    /\ ~hasSeenReveal
    /\ frameWrite.kind = "reveal"
    /\ frameWrite.uRevealProgress = ProgressOne

\* C25: if from some point on the user stays authenticated, loading has
\* finished with a non-empty artist list that no longer changes, and frames
\* keep being rendered (the fairness of SpecLive), then the phase eventually
\* becomes active and stays active.
C25_EventuallyActive ==
    (<>[](isAuthenticated /\ ~isLoadingMusic /\ artistsLength > 0)
        /\ <>[][artistsLength' = artistsLength]_vars)
      => <>[](galaxyPhase = "active")

\* a reveal that frames have carried to its end, for the user who stays
C25_Witness ==
    /\ Settled
    /\ isAuthenticated /\ ~isLoadingMusic /\ artistsLength = MaxArtists
    /\ galaxyPhase = "active"
    /\ hasSeenReveal
    /\ frameWrite.kind = "reveal"
    /\ frameWrite.uRevealProgress = ProgressOne
    /\ revealDurationRef = REVEAL_DURATION

\* C26: in every state of the UI store between two effects or handlers, so
\* in every state a component that selects from the store can render with,
\* phase active implies reveal progress 1 and phase skeleton implies reveal
\* progress 0.
C26_ProgressMatchesPhase ==
    /\ galaxyPhase = "active" => revealProgress = ProgressOne
    /\ galaxyPhase = "skeleton" => revealProgress = 0

\* a skip has cut a running reveal short and the progress stands at 1
C26_Witness ==
    /\ Settled
    /\ galaxyPhase = "active"
    /\ revealProgress = ProgressOne
    /\ skipReveal
    /\ revealStartTimeRef # NullTime
    /\ elapsedTime > revealStartTimeRef
    /\ elapsedTime - revealStartTimeRef < revealDurationRef

RatioOf(a, b) ==
    <<Cardinality(Range(a.genres) \cap Range(b.genres)),
      Cardinality(Range(a.genres) \cup Range(b.genres))>>

ConnectionsAsClaimed(list, connections) ==
    /\ \A k \in 1..Len(connections) :
          LET c == connections[k]
          IN  /\ c.strength[2] > 0
              /\ 0 <= c.strength[1] /\ c.strength[1] <= c.strength[2]
              /\ \E i, j \in 1..Len(list) :
                    /\ i < j
                    /\ {c.source, c.target} = {list[i].id, list[j].id}
                    /\ c.strength = RatioOf(list[i], list[j])
    /\ \A i, j \in 1..Len(list) :
          i < j =>
            LET r == RatioOf(list[i], list[j])
                n == Cardinality({k \in 1..Len(connections) :
                        {connections[k].source, connections[k].target}
                          = {list[i].id, list[j].id}})
            IN  n = IF r[1] * 100 > 15 * r[2] THEN 1 ELSE 0

\* C28: the connections of every pipeline run that returns, also of a run
\* whose positions come from the cache, and of every createSimulationLinks
\* call are those of the artists passed in: strength in 0..1 equal to shared
\* genres over distinct genres, exactly one connection for an unordered pair
\* with ratio above 0.15 and none for any other pair.
C28_ConnectionsFromGenreOverlap ==
    /\ (lastCall.called /\ ~lastCall.threw) =>
          ConnectionsAsClaimed(SpotifyArtists(lastCall.artistIds), lastCall.connections)
    /\ linkCall.called =>
          ConnectionsAsClaimed(linkCall.artists, linkCall.connections)

\* a cache hit that returned connections, and a direct call where one pair
\* shares exactly 15% (3 of 20) and gets none
C28_Witness ==
    /\ lastCall.called /\ lastCall.hit /\ ~lastCall.threw
    /\ lastCall.connections # <<>>
    /\ linkCall.called
    /\ \E i, j \in 1..Len(linkCall.artists) :
          /\ i < j
          /\ RatioOf(linkCall.artists[i], linkCall.artists[j]) = <<3, 20>>
          /\ \A k \in 1..Len(linkCall.connections) :
                {linkCall.connections[k].source, linkCall.connections[k].target} # {i, j}

\* C22: when the phase is active, the commit is complete and a frame has run
\* since the data set last changed (the last event was a frame), the
\* geometry attributes and the positions used for hover and click hold the
\* current data set.
C22_ActiveBuffersHoldCurrentData ==
    (Settled /\ galaxyPhase = "active" /\ artistsLength > 0 /\ frameWrite # NoWrite) =>
        /\ geometry.data = artistsLength
        /\ currentPositionsRef = artistsLength

\* C20: the buffer write of a frame uses the phase and the reveal progress
\* current at the end of that frame: the phase uniform shows the current
\* phase, and in a revealing frame both the progress uniform and the
\* interpolation of the geometry attributes use the current reveal progress.
C20_FrameWritesCurrentPhaseAndProgress ==
    [][ (\E d \in {FramePeriod, 2 * FramePeriod} : Frame(d)) =>
          /\ frameWrite'.uPhase = phaseValue(galaxyPhase')
          /\ galaxyPhase' = "revealing" =>
                /\ frameWrite'.kind = "reveal"
                /\ frameWrite'.uRevealProgress = revealProgress'
                /\ frameWrite'.interpolatedAt = revealProgress' ]_vars

(***************************************************************************)
(* Properties of the position cache                                        *)
(***************************************************************************)

\* C2: getCachedPositions returns a map only if the item found under the
\* key of the request is an entry of the current format version whose
\* artistIds, as a set, equal the requested ids as a set; in every other
\* case, as when localStorage throws, it returns null.
C2_MapOnlyFromValidEntry ==
    cacheResult.op = "get" =>
        IF ~cacheResult.available THEN cacheResult.ret = Null
        ELSE LET found == cacheResult.found
                 valid == /\ found.kind = "entry"
                          /\ found.version = CACHE_VERSION
                          /\ Range(found.artistIds) = Range(cacheResult.artistIds)
             IN  /\ ~cacheResult.ret.isNull => valid
                 /\ ~valid => cacheResult.ret = Null

C2_Witness ==
    /\ cacheResult.op = "get"
    /\ cacheResult.available
    /\ ~cacheResult.ret.isNull
    /\ cacheResult.found.artistIds # cacheResult.artistIds
    /\ Len(cacheResult.ret.map) = Len(cacheResult.artistIds)

\* C3: with working storage, a get for a time range and a list of ids returns
\* the map of the put that last wrote the key for that time range and the
\* same set of ids, equal entry for entry and whatever the order of the ids
\* in either call, when no write or removal touched the key since; it returns
\* null when no such put stands, as for a list of another size or with
\* another member.
C3_CacheRoundTrip ==
    (cacheResult.op = "get" /\ cacheResult.available) =>
        IF cacheResult.expected = {}
          THEN cacheResult.ret = Null
          ELSE /\ ~cacheResult.ret.isNull
               /\ cacheResult.expected = {cacheResult.ret.map}

C3_Witness ==
    /\ cacheResult.op = "get"
    /\ cacheResult.available
    /\ cacheResult.expected = {Layout(<<5, 3, 1, 2, 4>>, NumLayouts)}
    /\ cacheResult.artistIds = <<1, 2, 3, 4, 5>>
    /\ cacheResult.ret = [isNull |-> FALSE, map |-> Layout(<<5, 3, 1, 2, 4>>, NumLayouts)]

\* The item found under a key is an entry that isCacheValid rejects for the
\* ids: it has another format version or another set of ids.
Rejected(item, ids) ==
    /\ item.kind = "entry"
    /\ item.version # CACHE_VERSION \/ Range(item.artistIds) # Range(ids)

\* C23: a getCachedPositions call with working storage that finds an entry
\* under the key of the request and rejects it removes that entry (and
\* nothing else) and returns null; a call that hits and a call that finds
\* nothing under the key leave the storage as it was.
C23_RejectedEntryRemoved ==
    [][ (/\ cacheResult'.op = "get"
         /\ cacheResult'.available
         /\ getCachedPositions(cacheResult'.timeRange, cacheResult'.artistIds, TRUE)) =>
          LET key == CacheKey[cacheResult'.timeRange, cacheResult'.artistIds]
              item == storage[key]
          IN  /\ Rejected(item, cacheResult'.artistIds) =>
                    /\ storage'[key] = NoItem
                    /\ \A k \in CacheKeys \ {key} : storage'[k] = storage[k]
                    /\ cacheResult'.ret = Null
              /\ (item = NoItem \/ ~cacheResult'.ret.isNull) => storage' = storage ]_vars

C23_Witness ==
    /\ cacheResult.op = "get"
    /\ cacheResult.available
    /\ Rejected(cacheResult.found, cacheResult.artistIds)
    /\ cacheResult.found.version = CACHE_VERSION
    /\ cacheResult.ret = Null
    /\ storage[CacheKey[cacheResult.timeRange, cacheResult.artistIds]] = NoItem

(***************************************************************************)
(* Properties of transformToGalaxyData                                     *)
(***************************************************************************)

\* The call was made with the cache enabled and the storage working.
Working(call) == call.useCache /\ call.canRead /\ call.canWrite

\* the position each artist has in what a call returned
PositionsOf(call) ==
    {<<call.artists[i].id, call.artists[i].position>> : i \in 1..Len(call.artists)}

C12_CacheErrorsDegradeToMiss ==
    (/\ lastCall.called /\ lastCall.useCache
     /\ (~lastCall.canRead \/ ~lastCall.canWrite \/ lastCall.found = "text"))
    => /\ ~lastCall.threw
       /\ [i \in 1..Len(lastCall.artists) |-> lastCall.artists[i].id] = lastCall.artistIds
       /\ (~lastCall.canRead \/ lastCall.found = "text") =>
             /\ ~lastCall.hit /\ lastCall.ran
             /\ PositionsOf(lastCall) =
                   Range(SimulatedPositions(lastCall.artistIds))

\* a call that found text that is not JSON under its key and could not write
C12_Witness ==
    /\ lastCall.called /\ lastCall.useCache
    /\ lastCall.found = "text" /\ ~lastCall.canWrite
    /\ storage[CacheKey[lastCall.timeRange, lastCall.artistIds]].kind = "text"
    /\ lastCall.ran /\ ~lastCall.threw
    /\ Len(lastCall.artists) = 5

\* C21: every data set stored while a previous one exists has gone through
\* evolution detection against that previous one after its layout, so each
\* of its artists carries the evolution tag detectEvolution gives it.
C21_StoredDataCarriesEvolution ==
    (galaxyData # Null /\ previousGalaxyData # Null) =>
        /\ \A i \in 1..Len(galaxyData.artists) :
              "evolutionStatus" \in DOMAIN galaxyData.artists[i]
        /\ galaxyData = detectEvolution(galaxyData, previousGalaxyData)

(***************************************************************************)
(* Properties of the storage keys                                          *)
(***************************************************************************)

\* The entry under key k was put for another request than (timeRange, ids):
\* another time range, or another set of artist ids.
PutForAnother(k, timeRange, ids) ==
    /\ putAt[k].kind = "put"
    /\ \/ putAt[k].timeRange # timeRange
       \/ Range(putAt[k].artistIds) # Range(ids)

\* C13: the storage keys keep the entries apart: a setCachedPositions call
\* for one request, and a getCachedPositions call for one request (which
\* removes what it finds invalid), leave the entry put for a request of
\* another time range or of another set of artist ids as it is.
C13_KeysKeepEntriesApart ==
    [][\A t \in TimeRange, ids \in RequestLists, ok \in BOOLEAN :
          (\/ getCachedPositions(t, ids, ok)
           \/ \E l \in 1..NumLayouts : setCachedPositions(t, ids, Layout(ids, l), ok))
          => \A k \in CacheKeys :
                PutForAnother(k, t, ids) => storage'[k] = storage[k]]_vars

(***************************************************************************)
(* Properties of evolution tracking                                        *)
(***************************************************************************)

\* the places (counted from 1) an id has in the artists of a data set
PlacesOf(data, id) == {j \in 1..Len(data.artists) : data.artists[j].id = id}

\* C16: detectEvolution(newData, null) is newData, with no tag added;
\* otherwise the result has the artists of newData in their order, the
\* artist at index i tagged 'new' when its id is not in previousData, and
\* else, with d = (its index in previousData) - i, 'rising' when d >= 5,
\* 'falling' when d <= -5 and 'stable' in the other cases; no artist that
\* is only in previousData is in the result.
C16_EvolutionMatchesReference ==
    evolved.called =>
        IF previousData = Null
          THEN evolved.result = newData
          ELSE /\ Len(evolved.result.artists) = Len(newData.artists)
               /\ \A i \in 1..Len(newData.artists) :
                     LET tagged == evolved.result.artists[i]
                         places == PlacesOf(previousData, tagged.id)
                         d == (CHOOSE j \in places : TRUE) - i
                     IN  /\ tagged.id = newData.artists[i].id
                         /\ tagged.evolutionStatus =
                               IF places = {} THEN "new"
                               ELSE IF d >= 5 THEN "rising"
                               ELSE IF d <= 0 - 5 THEN "falling"
                               ELSE "stable"

\* a comparison in which artists come out new, rising by exactly five places,
\* falling by exactly five places and stable, and an artist of previousData
\* is left out
C16_Witness ==
    /\ evolved.called
    /\ previousData # Null
    /\ \A status \in {"new", "rising", "falling", "stable"} :
          \E i \in 1..Len(evolved.result.artists) :
              evolved.result.artists[i].evolutionStatus = status
    /\ \E i \in 1..Len(evolved.result.artists) : evolved.result.artists[i].rankChange = 5
    /\ \E i \in 1..Len(evolved.result.artists) : evolved.result.artists[i].rankChange = 0 - 5
    /\ \E j \in 1..Len(previousData.artists) :
          PlacesOf(evolved.result, previousData.artists[j].id) = {}

(***************************************************************************)
(* Properties of the orbital layout                                        *)
(***************************************************************************)

\* the square of the distance between two nodes
squaredDistance(a, b) ==
    (b.x - a.x) * (b.x - a.x) + (b.y - a.y) * (b.y - a.y) + (b.z - a.z) * (b.z - a.z)

\* The nodes have been through runSimulation.
LaidOut == config # NoConfig

\* C14: the layout is deterministic: whatever runSimulation calls were made
\* on the nodes before, and with whatever configs, the cluster, the rank and
\* the position of every artist after a run are those a run with the same
\* config gives on nodes just created from the same artist list.
C14_LayoutDeterministic ==
    LaidOut => nodes = runSimulation(createSimulationNodes(artists), config)

\* nodes laid out with one config and then laid out again with another
C14_Witness ==
    /\ LaidOut
    /\ otherConfigBefore
    /\ Len(nodes) >= 2
    /\ \E i \in 1..Len(nodes) : nodes[i].cluster > 0

\* C15: for every artist list, the empty one and the one of a single artist
\* included, the Map that nodesToPositions gives has as many entries as there
\* are artists, one under the id of each; for the empty list it is empty.
C15_OnePositionPerArtist ==
    ~positionMap.isNull =>
        /\ Len(positionMap.map) = Len(artists)
        /\ \A i \in 1..Len(artists) :
              Cardinality({k \in 1..Len(positionMap.map) :
                              positionMap.map[k][1] = artists[i].id}) = 1
        /\ artists = <<>> => positionMap.map = <<>>

\* the position map of a single artist, read after a run
C15_Witness ==
    /\ LaidOut
    /\ ~positionMap.isNull
    /\ Len(artists) = 1
    /\ positionMap.map = <<<<artists[1].id, <<nodes[1].x, nodes[1].y, nodes[1].z>>>>>>

\* The ranks are 0..n-1, each given once, by descending popularity, the
\* artists of equal popularity in their input order.
RanksByPopularity ==
    /\ {nodes[i].rank : i \in 1..Len(nodes)} = 0..(Len(nodes) - 1)
    /\ \A i, j \in 1..Len(nodes) :
          nodes[i].rank < nodes[j].rank <=>
              \/ nodes[i].popularity > nodes[j].popularity
              \/ nodes[i].popularity = nodes[j].popularity /\ i < j

\* The orbit radius is innerRadius at rank 0 and outerRadius at rank n-1.
RadiusEnds ==
    LET cfg == Merge(DEFAULT_CONFIG, config)
        n == Len(nodes)
    IN  /\ n >= 1 => orbitRadius(0, n, cfg) = cfg.innerRadius * Unit
        /\ n >= 2 => orbitRadius(n - 1, n, cfg) = cfg.outerRadius * Unit

RadiusStrictlyIncreasing ==
    LET cfg == Merge(DEFAULT_CONFIG, config)
        n == Len(nodes)
    IN  \A r, s \in 0..(n - 1) :
            r < s => orbitRadius(r, n, cfg) < orbitRadius(s, n, cfg)

TypeOK ==
    /\ galaxyPhase \in GalaxyPhase
    /\ revealProgress \in 0..ProgressOne
    /\ pc \in {"mount", "idle", "phase", "skip"}

\* the genres of a list of nodes, how often each occurs, and where it is met
\* first when the nodes and their genres are read in order
GenresOf(ns) == UNION {Range(ns[i].genres) : i \in 1..Len(ns)}

Places(ns) == UNION {{<<i, k>> : k \in 1..Len(ns[i].genres)} : i \in 1..Len(ns)}

Before(p, q) == p[1] < q[1] \/ (p[1] = q[1] /\ p[2] < q[2])

Occurrences(ns, genre) ==
    Cardinality({p \in Places(ns) : ns[p[1]].genres[p[2]] = genre})

FirstMet(ns, genre) ==
    CHOOSE p \in Places(ns) :
        /\ ns[p[1]].genres[p[2]] = genre
        /\ \A q \in Places(ns) : ns[q[1]].genres[q[2]] = genre => ~Before(q, p)

\* the number of genres sorted before a genre: those with more occurrences
\* and those with as many that are met earlier
IndexOf(ns, genre) ==
    LET count == Occurrences(ns, genre)
        first == FirstMet(ns, genre)
    IN  Cardinality({other \in GenresOf(ns) :
            LET otherCount == Occurrences(ns, other)
            IN  \/ otherCount > count
                \/ otherCount = count /\ Before(FirstMet(ns, other), first)})

\* the genres of a list of nodes with their indexes, as a set of pairs
IndexesOf(ns) == {<<genre, IndexOf(ns, genre)>> : genre \in GenresOf(ns)}

\* C29: after a layout run, the genre map of the nodes holds exactly their
\* genres, each with the index of its place in the order by descending
\* number of occurrences (equal counts in first-met order), and every node
\* has as cluster the least index among its own genres, or 0 without genres.
C29_ClusterIsMostCommonGenre ==
    LaidOut =>
        LET genreMap == buildGenreMap(nodes)
            indexes == IndexesOf(nodes)
        IN  /\ Range(genreMap) = indexes
            /\ Len(genreMap) = Cardinality(indexes)
            /\ \A i \in 1..Len(nodes) :
                  LET own == {p \in indexes : p[1] \in Range(nodes[i].genres)}
                  IN  /\ nodes[i].genres = <<>> => nodes[i].cluster = 0
                      /\ nodes[i].genres # <<>> =>
                            /\ \E p \in own : nodes[i].cluster = p[2]
                            /\ \A p \in own : nodes[i].cluster <= p[2]

\* laid out: a node whose first genre is not its most common one, two genres
\* with equal counts, and a node without genres
C29_Witness ==
    /\ LaidOut
    /\ \E i \in 1..Len(nodes) :
          /\ Len(nodes[i].genres) = 2
          /\ IndexOf(nodes, nodes[i].genres[1]) > IndexOf(nodes, nodes[i].genres[2])
          /\ nodes[i].cluster = IndexOf(nodes, nodes[i].genres[2])
    /\ \E i \in 1..Len(nodes) : nodes[i].genres = <<>>

\* the attribute values the claim gives for reveal progress p: shared slots
\* interpolated, target-only slots grown from zero, skeleton-only slots
\* faded, with e = 1 - (1 - p)^3
AttributesAsClaimed(written, p, skeleton, target) ==
    LET e == EaseOne - (ProgressOne - p) * (ProgressOne - p) * (ProgressOne - p)
    IN  /\ Len(written) = Max(Len(skeleton), Len(target))
        /\ \A i \in 1..Len(written) :
              IF i <= Len(skeleton) /\ i <= Len(target)
                THEN /\ \A j \in 1..3 :
                           /\ written[i].position[j] = skeleton[i].position[j] * EaseOne
                                 + (target[i].position[j] - skeleton[i].position[j]) * e
                           /\ written[i].color[j] = skeleton[i].color[j] * EaseOne
                                 + (target[i].color[j] - skeleton[i].color[j]) * e
                     /\ written[i].size = skeleton[i].size * EaseOne
                                 + (target[i].size - skeleton[i].size) * e
              ELSE IF i <= Len(target)
                THEN /\ \A j \in 1..3 : written[i].position[j] = target[i].position[j] * e
                     /\ written[i].size = target[i].size * e
                ELSE written[i].size = skeleton[i].size * (EaseOne - e)

\* C30: every frame that writes the geometry attributes while revealing
\* leaves in them the values of the interpolation at the current reveal
\* progress p, eased as 1 - (1 - p)^3: shared slots between skeleton and
\* target, target-only slots scaled by e, skeleton-only sizes by 1 - e.
C30_RevealWriteInterpolatesAtProgress ==
    [][ ((\E d \in {FramePeriod, 2 * FramePeriod} : Frame(d))
           /\ frameWrite'.kind = "reveal" /\ frameWrite'.attributes # NoAttributes) =>
          AttributesAsClaimed(frameWrite'.attributes, revealProgress',
                              SkeletonStars, ArtistStars(artistDataRef')) ]_vars

====
